---- MODULE Spec2Model ----
(***************************************************************************)
(* The AWS JSON 1.0 protocol codec of the Amazon Q developer streaming     *)
(* client (protocols/Aws_json1_0.ts): response deserialization, the error  *)
(* dispatcher, the event-stream callbacks, response metadata and the       *)
(* request envelope builder.                                               *)
(*                                                                         *)
(* JavaScript objects are functions whose DOMAIN is the set of keys that   *)
(* hold a value; a key that is absent (or undefined) is not in the DOMAIN. *)
(* Strings that the code takes apart (error codes, paths) are sequences of *)
(* tokens; all other strings are TLA+ strings.                             *)
(***************************************************************************)
EXTENDS Integers, Sequences, FiniteSets, TLC

VARIABLES
    op,         \* the command whose response is being deserialized
    output,     \* the __HttpResponse handed to de_*Command
    pc,         \* "received" | "returned" | "thrown"
    outcome,    \* what the de_*Command promise settled with
    pos,        \* number of frames the marshaller has read from the body
    yielded,    \* the events handed to the consumer, in order
    ended,      \* the event iteration is over
    buildInput, \* the arguments of buildHttpRpcRequest
    request,    \* the __HttpRequest it built (NoRequest before the call)
    calls,      \* the calls in progress on one client, each with its position
    locals      \* the local variables of the suspended invocations

vars ==
    <<op, output, pc, outcome, pos, yielded, ended, buildInput, request, calls,
      locals>>

-----------------------------------------------------------------------------
(* Objects and optional values *)

EmptyObj == [k \in {} |-> k]

Has(obj, key) == key \in DOMAIN obj

\* { ...a, ...b }: the keys of b win
Spread(a, b) == b @@ a

None == << >>
Some(x) == <<x>>

NoOutcome == [type |-> "pending"]

-----------------------------------------------------------------------------
(* Bounds *)

MaxFrames == 4
MaxBasePathLen == 3
MaxPathLen == 2
MaxCalls == 2
MaxListLen == 2
MaxContentLen == 3
\* The response size limit of the web page reader, scaled to the contents above.
webScrapeToolResponseSize == 2

-----------------------------------------------------------------------------
(* Wire values *)

Namespace == "com.amazon.aws.codewhisperer"

\* A body as the transport delivers it: JSON text (with the value it denotes),
\* text that is not JSON, no bytes at all, or a framed event stream.
JsonText(value) == [kind |-> "json", value |-> value]
Garbage == [kind |-> "garbage"]
EmptyText == [kind |-> "empty"]
EventStream(frames) == [kind |-> "stream", frames |-> frames]

\* One event-stream message: its event name and its payload bytes.
Frame(name, payload) ==
    [headers |-> (":event-type" :> name), body |-> payload]

-----------------------------------------------------------------------------
(* Collaborators of the codec *)

\* parseJsonBody: no bytes give {}, JSON text gives its value, anything else
\* makes JSON.parse throw.
parseBody(streamBody) ==
    IF streamBody.kind = "empty" THEN [ok |-> TRUE, value |-> EmptyObj]
    ELSE IF streamBody.kind = "json" THEN [ok |-> TRUE, value |-> streamBody.value]
    ELSE [ok |-> FALSE, error |-> [exception |-> "SyntaxError", fields |-> EmptyObj]]

parseErrorBody(errorBody) == parseBody(errorBody)

\* _json copies an object, leaving out keys without a value.
_json(obj) == [k \in DOMAIN obj |-> obj[k]]

\* The text after the last "#" of a code.
sanitizeErrorCode(code) ==
    LET hashes == {i \in 1..Len(code) : code[i] = "#"}
        last == CHOOSE i \in hashes : \A j \in hashes : j <= i
    IN  IF hashes = {} THEN code ELSE SubSeq(code, last + 1, Len(code))

\* The error code of a response: the error-type header when present, else the
\* body's __type field, normalized.
loadRestJsonErrorCode(out, data) ==
    IF Has(out.headers, "x-amzn-errortype")
    THEN Some(sanitizeErrorCode(out.headers["x-amzn-errortype"]))
    ELSE IF Has(data, "__type") THEN Some(sanitizeErrorCode(data["__type"]))
    ELSE None

\* new XException(options): the class, with the message and the $metadata of
\* the options.
ServiceException(class, options) ==
    [exception |-> class,
     fields |-> [k \in DOMAIN options \cap {"$metadata", "message"} |-> options[k]]]

\* Fills the fields the exception does not have yet from the body.
decorateServiceException(exception, additions) ==
    LET added == [k \in DOMAIN additions \ DOMAIN exception.fields |-> additions[k]]
        all == exception.fields @@ added
    IN  [exception EXCEPT !.fields =
            IF Has(all, "message") THEN all ELSE ("message" :> "UnknownError") @@ all]

-----------------------------------------------------------------------------
(* Response metadata *)

\* || in place of ??: an empty header value counts as absent.
deserializeMetadata_or(out) ==
    LET h == out.headers
        Truthy(key) == Has(h, key) /\ h[key] # ""
        httpStatusCode ==
            IF Has(out, "statusCode") THEN ("httpStatusCode" :> out.statusCode)
            ELSE EmptyObj
        requestId ==
            IF Truthy("x-amzn-requestid") THEN ("requestId" :> h["x-amzn-requestid"])
            ELSE IF Truthy("x-amzn-request-id") THEN ("requestId" :> h["x-amzn-request-id"])
            ELSE IF Has(h, "x-amz-request-id") THEN ("requestId" :> h["x-amz-request-id"])
            ELSE EmptyObj
        extendedRequestId ==
            IF Has(h, "x-amz-id-2") THEN ("extendedRequestId" :> h["x-amz-id-2"])
            ELSE EmptyObj
        cfId ==
            IF Has(h, "x-amz-cf-id") THEN ("cfId" :> h["x-amz-cf-id"]) ELSE EmptyObj
    IN  httpStatusCode @@ requestId @@ extendedRequestId @@ cfId

deserializeMetadata(out) ==
    LET h == out.headers
        httpStatusCode ==
            IF Has(out, "statusCode") THEN ("httpStatusCode" :> out.statusCode)
            ELSE EmptyObj
        requestId ==
            IF Has(h, "x-amzn-requestid") THEN ("requestId" :> h["x-amzn-requestid"])
            ELSE IF Has(h, "x-amzn-request-id") THEN ("requestId" :> h["x-amzn-request-id"])
            ELSE IF Has(h, "x-amz-request-id") THEN ("requestId" :> h["x-amz-request-id"])
            ELSE EmptyObj
        extendedRequestId ==
            IF Has(h, "x-amz-id-2") THEN ("extendedRequestId" :> h["x-amz-id-2"])
            ELSE EmptyObj
        cfId ==
            IF Has(h, "x-amz-cf-id") THEN ("cfId" :> h["x-amz-cf-id"]) ELSE EmptyObj
    IN  httpStatusCode @@ requestId @@ extendedRequestId @@ cfId

-----------------------------------------------------------------------------
(* Error dispatcher *)

Throw(e) == [type |-> "throw", value |-> e]
Return(v) == [type |-> "return", value |-> v]

de_NamedExceptionRes(class, parsedOutput) ==
    LET body == parsedOutput.body
        deserialized == _json(body)
        exception ==
            ServiceException(class,
                Spread(("$metadata" :> deserializeMetadata(parsedOutput)), deserialized))
    IN  decorateServiceException(exception, body)

de_AccessDeniedExceptionRes(parsedOutput) ==
    de_NamedExceptionRes("AccessDeniedException", parsedOutput)
de_ConflictExceptionRes(parsedOutput) ==
    de_NamedExceptionRes("ConflictException", parsedOutput)
de_DryRunOperationExceptionRes(parsedOutput) ==
    de_NamedExceptionRes("DryRunOperationException", parsedOutput)
de_InternalServerExceptionRes(parsedOutput) ==
    de_NamedExceptionRes("InternalServerException", parsedOutput)
de_ResourceNotFoundExceptionRes(parsedOutput) ==
    de_NamedExceptionRes("ResourceNotFoundException", parsedOutput)
de_ServiceQuotaExceededExceptionRes(parsedOutput) ==
    de_NamedExceptionRes("ServiceQuotaExceededException", parsedOutput)
de_ThrottlingExceptionRes(parsedOutput) ==
    de_NamedExceptionRes("ThrottlingException", parsedOutput)
de_ValidationExceptionRes(parsedOutput) ==
    de_NamedExceptionRes("ValidationException", parsedOutput)

\* withBaseException(__BaseException): the generic exception of the service,
\* with the code, the parsed body and the metadata of the response.
throwDefaultError(out, parsedBody, errorCode) ==
    [exception |-> "QDeveloperStreamingServiceException",
     fields |-> ("$metadata" :> deserializeMetadata(out))
                @@ ("body" :> parsedBody)
                @@ (IF errorCode = None THEN EmptyObj ELSE ("errorCode" :> errorCode[1]))]

\* Letter case folded: the one name of the inputs that differs from a known
\* name only in case is mapped to it.
FoldCase(name) == IF name = "validationexception" THEN "ValidationException" ELSE name

\* The case labels compared without regard to letter case.
Case_ignoreCase(errorCode, name) ==
    /\ errorCode # None
    /\ LET folded == [i \in 1..Len(errorCode[1]) |-> FoldCase(errorCode[1][i])]
       IN  folded = <<name>> \/ folded = <<Namespace, "#", name>>

\* case "X": case "com.amazon.aws.codewhisperer#X":
Case(errorCode, name) ==
    errorCode = Some(<<name>>) \/ errorCode = Some(<<Namespace, "#", name>>)

\* The switch without the labels of DryRunOperationException.
de_CommandError_switch_sevenKinds(out, parsedOutput, errorCode) ==
    IF Case(errorCode, "AccessDeniedException")
        THEN Throw(de_AccessDeniedExceptionRes(parsedOutput))
    ELSE IF Case(errorCode, "InternalServerException")
        THEN Throw(de_InternalServerExceptionRes(parsedOutput))
    ELSE IF Case(errorCode, "ThrottlingException")
        THEN Throw(de_ThrottlingExceptionRes(parsedOutput))
    ELSE IF Case(errorCode, "ValidationException")
        THEN Throw(de_ValidationExceptionRes(parsedOutput))
    ELSE IF Case(errorCode, "ConflictException")
        THEN Throw(de_ConflictExceptionRes(parsedOutput))
    ELSE IF Case(errorCode, "ResourceNotFoundException")
        THEN Throw(de_ResourceNotFoundExceptionRes(parsedOutput))
    ELSE IF Case(errorCode, "ServiceQuotaExceededException")
        THEN Throw(de_ServiceQuotaExceededExceptionRes(parsedOutput))
    ELSE Throw(throwDefaultError(out, parsedOutput.body, errorCode))

de_CommandError_switch(out, parsedOutput, errorCode) ==
    IF Case(errorCode, "AccessDeniedException")
        THEN Throw(de_AccessDeniedExceptionRes(parsedOutput))
    ELSE IF Case(errorCode, "InternalServerException")
        THEN Throw(de_InternalServerExceptionRes(parsedOutput))
    ELSE IF Case(errorCode, "ThrottlingException")
        THEN Throw(de_ThrottlingExceptionRes(parsedOutput))
    ELSE IF Case(errorCode, "ValidationException")
        THEN Throw(de_ValidationExceptionRes(parsedOutput))
    ELSE IF Case(errorCode, "ConflictException")
        THEN Throw(de_ConflictExceptionRes(parsedOutput))
    ELSE IF Case(errorCode, "DryRunOperationException")
        THEN Throw(de_DryRunOperationExceptionRes(parsedOutput))
    ELSE IF Case(errorCode, "ResourceNotFoundException")
        THEN Throw(de_ResourceNotFoundExceptionRes(parsedOutput))
    ELSE IF Case(errorCode, "ServiceQuotaExceededException")
        THEN Throw(de_ServiceQuotaExceededExceptionRes(parsedOutput))
    ELSE Throw(throwDefaultError(out, parsedOutput.body, errorCode))

\* The code is read from the body field alone.
de_CommandError_bodyOnly(out) ==
    LET parsed == parseErrorBody(out.body)
        parsedOutput == [out EXCEPT !.body = parsed.value]
        errorCode ==
            loadRestJsonErrorCode([out EXCEPT !.headers = EmptyObj], parsedOutput.body)
    IN  IF ~parsed.ok THEN Throw(parsed.error)
        ELSE de_CommandError_switch(out, parsedOutput, errorCode)

de_CommandError(out) ==
    LET parsed == parseErrorBody(out.body)
        parsedOutput == [out EXCEPT !.body = parsed.value]
        errorCode == loadRestJsonErrorCode(out, parsedOutput.body)
    IN  IF ~parsed.ok THEN Throw(parsed.error)
        ELSE de_CommandError_switch(out, parsedOutput, errorCode)

-----------------------------------------------------------------------------
(* Event decoders *)

Null == [isNull |-> TRUE]

\* contents = {}; Object.assign(contents, _json(await parseBody(output.body)))
de_JsonEvent_event(message) ==
    LET data == parseBody(message.body)
    IN  IF data.ok THEN Return(_json(data.value)) ELSE Throw(data.error)

de_AssistantResponseEvent_event(message) == de_JsonEvent_event(message)
de_CitationEvent_event(message) == de_JsonEvent_event(message)
de_CodeEvent_event(message) == de_JsonEvent_event(message)
de_CodeReferenceEvent_event(message) == de_JsonEvent_event(message)
de_DryRunSucceedEvent_event(message) == de_JsonEvent_event(message)
de_FollowupPromptEvent_event(message) == de_JsonEvent_event(message)
de_IntentsEvent_event(message) == de_JsonEvent_event(message)
de_InvalidStateEvent_event(message) == de_JsonEvent_event(message)
de_MessageMetadataEvent_event(message) == de_JsonEvent_event(message)
de_SupplementaryWebLinksEvent_event(message) == de_JsonEvent_event(message)
de_ToolUseEvent_event(message) == de_JsonEvent_event(message)

InteractionComponentKeys ==
    {"action", "alert", "infrastructureUpdate", "progress", "resource",
     "resourceList", "section", "step", "suggestions", "taskDetails",
     "taskReference", "text"}

de_InteractionComponent(obj) ==
    [k \in DOMAIN obj \cap InteractionComponentKeys |-> _json(obj[k])]

__expectString(value) == value

de_InteractionComponentEntry(obj) ==
    (IF Has(obj, "interactionComponent")
     THEN ("interactionComponent" :> de_InteractionComponent(obj["interactionComponent"]))
     ELSE EmptyObj)
    @@ (IF Has(obj, "interactionComponentId")
        THEN ("interactionComponentId" :> __expectString(obj["interactionComponentId"]))
        ELSE EmptyObj)

\* (output || []).filter(e => e != null).map(entry => ...); the argument
\* out is None when it is null or undefined.
de_InteractionComponentEntryList(out) ==
    LET list == IF out = None THEN << >> ELSE out[1]
        kept == SelectSeq(list, LAMBDA e : e # Null)
    IN  [i \in 1..Len(kept) |-> de_InteractionComponentEntry(kept[i])]

de_InteractionComponentsEvent(obj) ==
    IF Has(obj, "interactionComponentEntries")
    THEN ("interactionComponentEntries" :>
            de_InteractionComponentEntryList(Some(obj["interactionComponentEntries"])))
    ELSE EmptyObj

de_InteractionComponentsEvent_event(message) ==
    LET data == parseBody(message.body)
    IN  IF data.ok THEN Return(de_InteractionComponentsEvent(data.value))
        ELSE Throw(data.error)

\* parsedOutput = { ...output, body: await parseBody(output.body) }
de_Exception_event(class, message) ==
    LET data == parseBody(message.body)
        parsedOutput == [message EXCEPT !.body = data.value]
    IN  IF data.ok THEN Return(de_NamedExceptionRes(class, parsedOutput))
        ELSE Throw(data.error)

\* The error event decoded like any other event: no exception is built.
de_InternalServerException_event_plain(message) ==
    LET data == parseBody(message.body)
    IN  IF data.ok THEN Return(_json(data.value)) ELSE Throw(data.error)

de_InternalServerException_event(message) ==
    de_Exception_event("InternalServerException", message)
de_ServiceQuotaExceededException_event(message) ==
    de_Exception_event("ServiceQuotaExceededException", message)

\* The wrong exception decoder behind the ValidationError event.
de_ValidationException_event_internal(message) ==
    de_Exception_event("InternalServerException", message)

de_ValidationException_event(message) ==
    de_Exception_event("ValidationException", message)

-----------------------------------------------------------------------------
(* Event-stream deserializers *)

\* return { <tag>: await decoder(event[<tag>]) }
Alternative(tag, decoded) ==
    IF decoded.type = "return" THEN Return(tag :> decoded.value) ELSE decoded

\* An unknown event makes the callback fail.
unknownEvent_throws(body) ==
    Throw([exception |-> "Error", fields |-> ("message" :> "unknown event")])

\* return {$unknown: output}
unknownEvent(body) == Return("$unknown" :> body)

\* The callback de_ChatResponseStream hands to the marshaller; body is the
\* `output` the callback closes over.
de_ChatResponseStream_event(event, body) ==
    IF Has(event, "messageMetadataEvent") THEN
        Alternative("messageMetadataEvent",
            de_MessageMetadataEvent_event(event["messageMetadataEvent"]))
    ELSE IF Has(event, "assistantResponseEvent") THEN
        Alternative("assistantResponseEvent",
            de_AssistantResponseEvent_event(event["assistantResponseEvent"]))
    ELSE IF Has(event, "dryRunSucceedEvent") THEN
        Alternative("dryRunSucceedEvent",
            de_DryRunSucceedEvent_event(event["dryRunSucceedEvent"]))
    ELSE IF Has(event, "codeReferenceEvent") THEN
        Alternative("codeReferenceEvent",
            de_CodeReferenceEvent_event(event["codeReferenceEvent"]))
    ELSE IF Has(event, "supplementaryWebLinksEvent") THEN
        Alternative("supplementaryWebLinksEvent",
            de_SupplementaryWebLinksEvent_event(event["supplementaryWebLinksEvent"]))
    ELSE IF Has(event, "followupPromptEvent") THEN
        Alternative("followupPromptEvent",
            de_FollowupPromptEvent_event(event["followupPromptEvent"]))
    ELSE IF Has(event, "codeEvent") THEN
        Alternative("codeEvent", de_CodeEvent_event(event["codeEvent"]))
    ELSE IF Has(event, "intentsEvent") THEN
        Alternative("intentsEvent", de_IntentsEvent_event(event["intentsEvent"]))
    ELSE IF Has(event, "interactionComponentsEvent") THEN
        Alternative("interactionComponentsEvent",
            de_InteractionComponentsEvent_event(event["interactionComponentsEvent"]))
    ELSE IF Has(event, "toolUseEvent") THEN
        Alternative("toolUseEvent", de_ToolUseEvent_event(event["toolUseEvent"]))
    ELSE IF Has(event, "citationEvent") THEN
        Alternative("citationEvent", de_CitationEvent_event(event["citationEvent"]))
    ELSE IF Has(event, "invalidStateEvent") THEN
        Alternative("invalidStateEvent",
            de_InvalidStateEvent_event(event["invalidStateEvent"]))
    ELSE IF Has(event, "error") THEN
        Alternative("error", de_InternalServerException_event(event["error"]))
    ELSE unknownEvent(body)

de_GenerateCodeFromCommandsResponseStream_event(event, body) ==
    IF Has(event, "codeEvent") THEN
        Alternative("codeEvent", de_CodeEvent_event(event["codeEvent"]))
    ELSE IF Has(event, "Error") THEN
        Alternative("Error", de_InternalServerException_event(event["Error"]))
    ELSE IF Has(event, "QuotaLevelExceededError") THEN
        Alternative("QuotaLevelExceededError",
            de_ServiceQuotaExceededException_event(event["QuotaLevelExceededError"]))
    ELSE IF Has(event, "ValidationError") THEN
        Alternative("ValidationError",
            de_ValidationException_event(event["ValidationError"]))
    ELSE unknownEvent(body)

\* context.eventStreamMarshaller.deserialize(output, callback): the lazy
\* sequence, nothing read yet.
de_ChatResponseStream(body) ==
    [source |-> body, deserializer |-> "de_ChatResponseStream"]

de_GenerateCodeFromCommandsResponseStream(body) ==
    [source |-> body, deserializer |-> "de_GenerateCodeFromCommandsResponseStream"]

Deserialize(stream, event) ==
    IF stream.deserializer = "de_ChatResponseStream"
    THEN de_ChatResponseStream_event(event, stream.source)
    ELSE de_GenerateCodeFromCommandsResponseStream_event(event, stream.source)

\* The single alternative of a decoded event and its value.
TagOf(alt) == CHOOSE k \in DOMAIN alt : TRUE
ValueOf(alt) == alt[TagOf(alt)]
IsException(value) == Has(value, "exception")

-----------------------------------------------------------------------------
(* Response deserializers *)

\* Status 300 taken for a success.
de_SendMessageCommand_above300(out) ==
    IF out.statusCode > 300 THEN de_CommandError(out)
    ELSE Return(("$metadata" :> deserializeMetadata(out))
                @@ ("sendMessageResponse" :> de_ChatResponseStream(out.body)))

de_SendMessageCommand(out) ==
    IF out.statusCode >= 300 THEN de_CommandError(out)
    ELSE Return(("$metadata" :> deserializeMetadata(out))
                @@ ("sendMessageResponse" :> de_ChatResponseStream(out.body)))

de_GenerateCodeFromCommandsCommand(out) ==
    IF out.statusCode >= 300 THEN de_CommandError(out)
    ELSE Return(("$metadata" :> deserializeMetadata(out))
                @@ ("generatedCodeFromCommandsResponse" :>
                        de_GenerateCodeFromCommandsResponseStream(out.body)))

\* The event sequence of a returned command output.
StreamOf(result) ==
    IF Has(result, "sendMessageResponse") THEN result["sendMessageResponse"]
    ELSE result["generatedCodeFromCommandsResponse"]

-----------------------------------------------------------------------------
(* Request envelope *)

NoRequest == [built |-> FALSE]

endsWith(str, ch) == Len(str) > 0 /\ str[Len(str)] = ch

\* str.slice(0, -1)
sliceLast(str) == IF Len(str) = 0 THEN str ELSE SubSeq(str, 1, Len(str) - 1)

\* The two paths concatenated as they are.
buildHttpRpcRequest_noStrip(endpoint, headers, path, resolvedHostname, body) ==
    LET contents ==
            ("protocol" :> (IF Has(endpoint, "protocol") THEN endpoint.protocol ELSE "https"))
            @@ ("hostname" :> endpoint.hostname)
            @@ (IF Has(endpoint, "port") THEN ("port" :> endpoint.port) ELSE EmptyObj)
            @@ ("method" :> "POST")
            @@ ("path" :> endpoint.path \o path)
            @@ ("headers" :> headers)
        withHost ==
            IF resolvedHostname # None
            THEN ("hostname" :> resolvedHostname[1]) @@ contents ELSE contents
    IN  IF body # None THEN ("body" :> body[1]) @@ withHost ELSE withHost

buildHttpRpcRequest(endpoint, headers, path, resolvedHostname, body) ==
    LET basePath == endpoint.path
        contents ==
            ("protocol" :> (IF Has(endpoint, "protocol") THEN endpoint.protocol ELSE "https"))
            @@ ("hostname" :> endpoint.hostname)
            @@ (IF Has(endpoint, "port") THEN ("port" :> endpoint.port) ELSE EmptyObj)
            @@ ("method" :> "POST")
            @@ ("path" :> (IF endsWith(basePath, "/") THEN sliceLast(basePath) \o path
                           ELSE basePath \o path))
            @@ ("headers" :> headers)
        withHost ==
            IF resolvedHostname # None
            THEN ("hostname" :> resolvedHostname[1]) @@ contents ELSE contents
    IN  IF body # None THEN ("body" :> body[1]) @@ withHost ELSE withHost

\* The headers of one operation for every operation.
sharedHeaders_oneTarget(operation) ==
    ("content-type" :> "application/x-amz-json-1.0")
    @@ ("x-amz-target" :> <<"AmazonQDeveloperStreamingService", ".", "SendMessage">>)

sharedHeaders(operation) ==
    ("content-type" :> "application/x-amz-json-1.0")
    @@ ("x-amz-target" :> <<"AmazonQDeveloperStreamingService", ".", operation>>)

-----------------------------------------------------------------------------
(* Collaborators of the serializers *)

\* The failure of a call on a malformed input.
TypeError == [exception |-> "TypeError", fields |-> EmptyObj]

\* The result of a step under a key, or its failure.
Keyed(key, result) ==
    IF result.type = "throw" THEN result ELSE Return(key :> result.value)

\* The function that a rule of a table names, applied to a value.
RECURSIVE CallRule(_, _)

\* take(source, instructions): for each key of the table whose source value
\* is present, the value the key's rule gives; the first failing rule fails
\* the whole.
take(source, instructions) ==
    LET present == DOMAIN source \cap DOMAIN instructions
        results == [k \in present |-> CallRule(instructions[k], source[k])]
        failed == {k \in present : results[k].type = "throw"}
    IN  IF failed # {} THEN results[CHOOSE k \in failed : TRUE]
        ELSE Return([k \in present |-> results[k].value])

\* Every entry mapped, the null ones too.
MapEntries_keepsNull(input, rule) ==
    LET results == [i \in 1..Len(input) |-> CallRule(rule, input[i])]
        failed == {i \in 1..Len(input) : results[i].type = "throw"}
    IN  IF failed # {} THEN results[CHOOSE i \in failed : \A j \in failed : i <= j]
        ELSE Return([i \in 1..Len(input) |-> results[i].value])

\* input.filter(e => e != null).map(entry => rule(entry))
MapEntries(input, rule) ==
    LET kept == SelectSeq(input, LAMBDA e : e # Null)
        results == [i \in 1..Len(kept) |-> CallRule(rule, kept[i])]
        failed == {i \in 1..Len(kept) : results[i].type = "throw"}
    IN  IF failed # {} THEN results[CHOOSE i \in failed : \A j \in failed : i <= j]
        ELSE Return([i \in 1..Len(kept) |-> results[i].value])

\* _: (name, value) => ({ name: value })
unknownMember(name, value) == Return("name" :> value)

\* X.visit(value, visitor): the callback of the one populated alternative, or
\* the callback _ with the tag name and the value of the unrecognized one; a
\* value with no or with several populated alternatives is an input error.
\* A callback  tag: value => ({ key: rule(value) })  is [key, rule].
visit(value, visitor) ==
    LET populated == DOMAIN value \cap (DOMAIN visitor \cup {"$unknown"})
    IN  IF Cardinality(populated) # 1 THEN Throw(TypeError)
        ELSE IF Has(value, "$unknown")
        THEN unknownMember(value["$unknown"][1], value["$unknown"][2])
        ELSE LET tag == CHOOSE t \in populated : TRUE
             IN  Keyed(visitor[tag].key, CallRule(visitor[tag].rule, value[tag]))

\* context.base64Encoder
base64Encoder(bytes) == [base64 |-> bytes]

\* JSON.stringify
JSON_stringify(value) == JsonText(value)

-----------------------------------------------------------------------------
(* Serializers of the request shapes *)

se_SensitiveDocument(input) == Return(input)

se_ToolUse(input) ==
    take(input, [input |-> "se_SensitiveDocument", name |-> "pass", toolUseId |-> "pass"])

se_ToolUses(input) == MapEntries(input, "se_ToolUse")

se_AssistantResponseMessage(input) ==
    take(input,
         [content |-> "pass", followupPrompt |-> "_json", messageId |-> "pass",
          references |-> "_json", supplementaryWebLinks |-> "_json",
          toolUses |-> "se_ToolUses"])

se_ImageSource(input) ==
    visit(input, [bytes |-> [key |-> "bytes", rule |-> "base64Encoder"]])

se_ImageBlock(input) == take(input, [format |-> "pass", source |-> "se_ImageSource"])

se_ImageBlocks(input) == MapEntries(input, "se_ImageBlock")

se_ToolInputSchema(input) == take(input, [json |-> "se_SensitiveDocument"])

se_ToolSpecification(input) ==
    take(input,
         [description |-> "pass", inputSchema |-> "se_ToolInputSchema", name |-> "pass"])

se_Tool(input) ==
    visit(input,
          [toolSpecification |->
              [key |-> "toolSpecification", rule |-> "se_ToolSpecification"]])

se_Tools(input) == MapEntries(input, "se_Tool")

se_ToolResultContentBlock(input) ==
    visit(input,
          [json |-> [key |-> "json", rule |-> "se_SensitiveDocument"],
           text |-> [key |-> "text", rule |-> "pass"]])

se_ToolResultContent(input) == MapEntries(input, "se_ToolResultContentBlock")

se_ToolResult(input) ==
    take(input,
         [content |-> "se_ToolResultContent", status |-> "pass", toolUseId |-> "pass"])

se_ToolResults(input) == MapEntries(input, "se_ToolResult")

se_UserInputMessageContext(input) ==
    take(input,
         [additionalContext |-> "_json", appStudioContext |-> "_json",
          consoleState |-> "_json", diagnostic |-> "_json", editorState |-> "_json",
          envState |-> "_json", gitState |-> "_json", shellState |-> "_json",
          toolResults |-> "se_ToolResults", tools |-> "se_Tools",
          userSettings |-> "_json"])

se_UserInputMessage(input) ==
    take(input,
         [content |-> "pass", images |-> "se_ImageBlocks", origin |-> "pass",
          userInputMessageContext |-> "se_UserInputMessageContext",
          userIntent |-> "pass"])

\* Each alternative encoded under the name of the other one.
se_ChatMessage_swapped(input) ==
    visit(input,
          [assistantResponseMessage |->
              [key |-> "userInputMessage", rule |-> "se_AssistantResponseMessage"],
           userInputMessage |->
              [key |-> "assistantResponseMessage", rule |-> "se_UserInputMessage"]])

se_ChatMessage(input) ==
    visit(input,
          [assistantResponseMessage |->
              [key |-> "assistantResponseMessage", rule |-> "se_AssistantResponseMessage"],
           userInputMessage |->
              [key |-> "userInputMessage", rule |-> "se_UserInputMessage"]])

se_ChatHistory(input) == MapEntries(input, "se_ChatMessage")

\* The sub-encoders applied to the fields whether present or not.
se_ConversationState_appliesAll(input) ==
    IF {"currentMessage", "history"} \subseteq DOMAIN input
    THEN take(input,
              [chatTriggerType |-> "pass", conversationId |-> "pass",
               currentMessage |-> "se_ChatMessage", customizationArn |-> "pass",
               history |-> "se_ChatHistory"])
    ELSE Throw(TypeError)

se_ConversationState(input) ==
    take(input,
         [chatTriggerType |-> "pass", conversationId |-> "pass",
          currentMessage |-> "se_ChatMessage", customizationArn |-> "pass",
          history |-> "se_ChatHistory"])

se_SendMessageRequest(input) ==
    take(input,
         [conversationState |-> "se_ConversationState", dryRun |-> "pass",
          profileArn |-> "pass", source |-> "pass"])

\* The mirror encoders of de_InteractionComponent and of
\* de_InteractionComponentEntry.
se_InteractionComponent(input) ==
    take(input, [k \in InteractionComponentKeys |-> "_json"])

se_InteractionComponentEntry(input) ==
    take(input,
         [interactionComponent |-> "se_InteractionComponent",
          interactionComponentId |-> "pass"])

\* "pass" is the rule [] of a table: the value as it is.
CallRule(rule, value) ==
    CASE rule = "pass" -> Return(value)
      [] rule = "_json" -> Return(_json(value))
      [] rule = "base64Encoder" -> Return(base64Encoder(value))
      [] rule = "se_SensitiveDocument" -> se_SensitiveDocument(value)
      [] rule = "se_ToolUse" -> se_ToolUse(value)
      [] rule = "se_ToolUses" -> se_ToolUses(value)
      [] rule = "se_AssistantResponseMessage" -> se_AssistantResponseMessage(value)
      [] rule = "se_ImageSource" -> se_ImageSource(value)
      [] rule = "se_ImageBlock" -> se_ImageBlock(value)
      [] rule = "se_ImageBlocks" -> se_ImageBlocks(value)
      [] rule = "se_ToolInputSchema" -> se_ToolInputSchema(value)
      [] rule = "se_ToolSpecification" -> se_ToolSpecification(value)
      [] rule = "se_Tool" -> se_Tool(value)
      [] rule = "se_Tools" -> se_Tools(value)
      [] rule = "se_ToolResultContentBlock" -> se_ToolResultContentBlock(value)
      [] rule = "se_ToolResultContent" -> se_ToolResultContent(value)
      [] rule = "se_ToolResult" -> se_ToolResult(value)
      [] rule = "se_ToolResults" -> se_ToolResults(value)
      [] rule = "se_UserInputMessageContext" -> se_UserInputMessageContext(value)
      [] rule = "se_UserInputMessage" -> se_UserInputMessage(value)
      [] rule = "se_ChatMessage" -> se_ChatMessage(value)
      [] rule = "se_ChatHistory" -> se_ChatHistory(value)
      [] rule = "se_ConversationState" -> se_ConversationState(value)
      [] rule = "se_SendMessageRequest" -> se_SendMessageRequest(value)
      [] rule = "se_InteractionComponent" -> se_InteractionComponent(value)
      [] rule = "se_InteractionComponentEntry" -> se_InteractionComponentEntry(value)
      [] rule = "de_InteractionComponentEntryList" ->
            Return(de_InteractionComponentEntryList(value))

-----------------------------------------------------------------------------
(* Mirror decoders *)

\* The table or the visitor of each encoder, for the decoder of its shape.
MirrorRules(rule) ==
    CASE rule = "se_ToolUse" ->
            [input |-> "se_SensitiveDocument", name |-> "pass", toolUseId |-> "pass"]
      [] rule = "se_AssistantResponseMessage" ->
            [content |-> "pass", followupPrompt |-> "_json", messageId |-> "pass",
             references |-> "_json", supplementaryWebLinks |-> "_json",
             toolUses |-> "se_ToolUses"]
      [] rule = "se_ImageSource" -> [bytes |-> "base64Encoder"]
      [] rule = "se_ImageBlock" -> [format |-> "pass", source |-> "se_ImageSource"]
      [] rule = "se_ToolInputSchema" -> [json |-> "se_SensitiveDocument"]
      [] rule = "se_ToolSpecification" ->
            [description |-> "pass", inputSchema |-> "se_ToolInputSchema",
             name |-> "pass"]
      [] rule = "se_Tool" -> [toolSpecification |-> "se_ToolSpecification"]
      [] rule = "se_ToolResultContentBlock" ->
            [json |-> "se_SensitiveDocument", text |-> "pass"]
      [] rule = "se_ToolResult" ->
            [content |-> "se_ToolResultContent", status |-> "pass",
             toolUseId |-> "pass"]
      [] rule = "se_UserInputMessageContext" ->
            [additionalContext |-> "_json", appStudioContext |-> "_json",
             consoleState |-> "_json", diagnostic |-> "_json",
             editorState |-> "_json", envState |-> "_json", gitState |-> "_json",
             shellState |-> "_json", toolResults |-> "se_ToolResults",
             tools |-> "se_Tools", userSettings |-> "_json"]
      [] rule = "se_UserInputMessage" ->
            [content |-> "pass", images |-> "se_ImageBlocks", origin |-> "pass",
             userInputMessageContext |-> "se_UserInputMessageContext",
             userIntent |-> "pass"]
      [] rule = "se_ChatMessage" ->
            [assistantResponseMessage |-> "se_AssistantResponseMessage",
             userInputMessage |-> "se_UserInputMessage"]
      [] rule = "se_ConversationState" ->
            [chatTriggerType |-> "pass", conversationId |-> "pass",
             currentMessage |-> "se_ChatMessage", customizationArn |-> "pass",
             history |-> "se_ChatHistory"]
      [] rule = "se_SendMessageRequest" ->
            [conversationState |-> "se_ConversationState", dryRun |-> "pass",
             profileArn |-> "pass", source |-> "pass"]
      [] rule = "se_ToolUses" -> "se_ToolUse"
      [] rule = "se_ImageBlocks" -> "se_ImageBlock"
      [] rule = "se_Tools" -> "se_Tool"
      [] rule = "se_ToolResultContent" -> "se_ToolResultContentBlock"
      [] rule = "se_ToolResults" -> "se_ToolResult"
      [] rule = "se_ChatHistory" -> "se_ChatMessage"

RECURSIVE Decode(_, _)

\* The decoder that mirrors an encoder: unproject(wireObject, rules) pulls
\* the keys of the table, each through the mirror of its rule; the one key of
\* a Variant's wire object names its alternative, or the unrecognized one
\* carrying that key and its raw value.
Decode(rule, wire) ==
    CASE rule \in {"pass", "_json", "se_SensitiveDocument"} -> wire
      [] rule = "base64Encoder" -> wire.base64
      [] rule = "se_InteractionComponentEntry" -> de_InteractionComponentEntry(wire)
      [] rule \in {"se_ToolUses", "se_ImageBlocks", "se_Tools", "se_ToolResultContent",
                   "se_ToolResults", "se_ChatHistory"} ->
            [i \in DOMAIN wire |-> Decode(MirrorRules(rule), wire[i])]
      [] rule \in {"se_ImageSource", "se_Tool", "se_ToolResultContentBlock",
                   "se_ChatMessage"} ->
            LET key == CHOOSE k \in DOMAIN wire : TRUE
            IN  IF key \in DOMAIN MirrorRules(rule)
                THEN key :> Decode(MirrorRules(rule)[key], wire[key])
                ELSE "$unknown" :> <<key, wire[key]>>
      [] OTHER ->
            [k \in DOMAIN wire \cap DOMAIN MirrorRules(rule) |->
                Decode(MirrorRules(rule)[k], wire[k])]

-----------------------------------------------------------------------------
(* Request serializers *)

se_GenerateCodeFromCommandsCommand(input, endpoint) ==
    LET headers == sharedHeaders("GenerateCodeFromCommands")
        body == JSON_stringify(_json(input))
    IN  Return(buildHttpRpcRequest(endpoint, headers, <<"/">>, None, Some(body)))

\* The request built whether or not the input could be encoded.
se_SendMessageCommand_buildsFirst(input, endpoint) ==
    LET headers == sharedHeaders("SendMessage")
        encoded == se_SendMessageRequest(input)
    IN  Return(buildHttpRpcRequest(endpoint, headers, <<"/">>, None,
            IF encoded.type = "throw" THEN None
            ELSE Some(JSON_stringify(encoded.value))))

se_SendMessageCommand(input, endpoint) ==
    LET headers == sharedHeaders("SendMessage")
        encoded == se_SendMessageRequest(input)
    IN  IF encoded.type = "throw" THEN encoded
        ELSE Return(buildHttpRpcRequest(endpoint, headers, <<"/">>, None,
                                        Some(JSON_stringify(encoded.value))))

-----------------------------------------------------------------------------
(* Inputs *)

BoundedSeq(S, n) == UNION {[1..k -> S] : k \in 0..n}

KnownNames ==
    {"AccessDeniedException", "InternalServerException", "ThrottlingException",
     "ValidationException", "ConflictException", "DryRunOperationException",
     "ResourceNotFoundException", "ServiceQuotaExceededException"}

\* A name differing from a known one only in letter case, and an unknown one.
InputNames == KnownNames \cup {"validationexception", "FooException"}

Namespaces == {Namespace, "com.example.service"}

Codes ==
    {<<n>> : n \in InputNames}
    \cup {<<ns, "#", n>> : ns \in Namespaces, n \in InputNames}
    \cup {<<"com.example", "#", "v2", "#", "ThrottlingException">>}

BodyCodes ==
    {<<"ThrottlingException">>, <<Namespace, "#", "ConflictException">>,
     <<"FooException">>}

Optional(key, values) == {EmptyObj} \cup {key :> v : v \in values}

ForgedMetadata == ("httpStatusCode" :> 200) @@ ("requestId" :> "forged")

ErrorBodies(types) ==
    {Garbage, EmptyText}
    \cup {JsonText(t @@ m @@ md) :
            t \in Optional("__type", types),
            m \in Optional("message", {"boom"}),
            md \in Optional("$metadata", {ForgedMetadata})}

Response(status, headers, body) ==
    [statusCode |-> status, headers |-> headers, body |-> body]

\* Error responses: every code in the header or in the body, and a header and
\* a body that disagree.
ErrorResponses ==
    {Response(st, et @@ rid, b) :
        st \in {300, 500},
        et \in Optional("x-amzn-errortype", Codes),
        rid \in Optional("x-amzn-requestid", {"abc-123"}),
        b \in ErrorBodies(BodyCodes)}
    \cup {Response(st, rid, b) :
        st \in {300, 500},
        rid \in Optional("x-amzn-requestid", {"abc-123"}),
        b \in ErrorBodies(Codes)}

\* Every combination of the metadata headers.
MetadataHeaders ==
    {a @@ b @@ c @@ d @@ e :
        a \in Optional("x-amzn-requestid", {"", "abc-123"}),
        b \in Optional("x-amzn-request-id", {"r2"}),
        c \in Optional("x-amz-request-id", {"r3"}),
        d \in Optional("x-amz-id-2", {"ext"}),
        e \in Optional("x-amz-cf-id", {"cf"})}

MetadataResponses ==
    {Response(200, h, EventStream(<< >>)) : h \in MetadataHeaders}
    \cup {Response(403, h, JsonText("__type" :> <<"AccessDeniedException">>)) :
            h \in MetadataHeaders}

ErrorPayloads ==
    {JsonText(("__type" :> <<"InternalServerException">>) @@ ("message" :> "boom")),
     JsonText(("__type" :> <<Namespace, "#", "ValidationException">>)
              @@ ("message" :> "bad"))}

ChatFrames ==
    {Frame("messageMetadataEvent", JsonText("conversationId" :> "c1")),
     Frame("assistantResponseEvent", JsonText("content" :> "t1")),
     Frame("assistantResponseEvent",
           JsonText(("content" :> "t2") @@ ("futureField" :> "f"))),
     Frame("futureEvent", JsonText("content" :> "x")),
     Frame("futureEvent", JsonText("content" :> "y")),
     Frame("interactionComponentsEvent",
           JsonText(("interactionComponentEntries" :>
                        <<("interactionComponentId" :> "i1")
                          @@ ("interactionComponent" :>
                                (("text" :> ("content" :> "hello"))
                                 @@ ("futureField" :> "f")))
                          @@ ("futureField" :> "f")>>)
                    @@ ("futureField" :> "f")))}
    \cup {Frame("error", p) : p \in ErrorPayloads}

CodeFrames ==
    {Frame("codeEvent", JsonText("content" :> "k1")),
     Frame("futureEvent", JsonText("content" :> "x")),
     Frame("error", JsonText("message" :> "lower-case name")),
     Frame("QuotaLevelExceededError",
           JsonText(("__type" :> <<"ServiceQuotaExceededException">>)
                    @@ ("message" :> "quota"))),
     Frame("ValidationError",
           JsonText(("__type" :> <<"ThrottlingException">>) @@ ("message" :> "slow")))}
    \cup {Frame("Error", p) : p \in ErrorPayloads}

FramesOf(operation) == IF operation = "SendMessage" THEN ChatFrames ELSE CodeFrames

StreamResponses(operation) ==
    {Response(200, ("x-amzn-requestid" :> "abc-123"), EventStream(fs)) :
        fs \in BoundedSeq(FramesOf(operation), MaxFrames)}

Operations == {"SendMessage", "GenerateCodeFromCommands"}

-----------------------------------------------------------------------------
(* Deserializing a response *)

NoBuildInput == [called |-> FALSE]

Init ==
    /\ op \in Operations
    /\ output \in ErrorResponses \cup MetadataResponses \cup StreamResponses(op)
    /\ pc = "received"
    /\ outcome = NoOutcome
    /\ pos = 0
    /\ yielded = << >>
    /\ ended = FALSE
    /\ buildInput = NoBuildInput
    /\ request = NoRequest
    /\ calls = << >>
    /\ locals = << >>

Settle(result) ==
    /\ outcome' = result
    /\ pc' = IF result.type = "throw" THEN "thrown" ELSE "returned"
    /\ UNCHANGED <<op, output, pos, yielded, ended, buildInput, request, calls, locals>>

Do_de_SendMessageCommand ==
    /\ pc = "received"
    /\ op = "SendMessage"
    /\ Settle(de_SendMessageCommand(output))

Do_de_GenerateCodeFromCommandsCommand ==
    /\ pc = "received"
    /\ op = "GenerateCodeFromCommands"
    /\ Settle(de_GenerateCodeFromCommandsCommand(output))

\* The consumer asks for the next event: the marshaller reads one frame, hands
\* { <event name>: message } to the callback and yields what it returns; an
\* exception ends the sequence.
NextEvent ==
    /\ pc = "returned"
    /\ ~ended
    /\ LET stream == StreamOf(outcome.value)
           frames == stream.source.frames
       IN  /\ pos < Len(frames)
           /\ LET message == frames[pos + 1]
                  event == (message.headers[":event-type"] :> message)
                  decoded == Deserialize(stream, event)
              IN  /\ pos' = pos + 1
                  /\ yielded' = IF decoded.type = "return"
                                THEN Append(yielded, decoded.value) ELSE yielded
                  /\ ended' = (decoded.type = "throw"
                               \/ IsException(ValueOf(decoded.value)))
    /\ UNCHANGED <<op, output, pc, outcome, buildInput, request, calls, locals>>

\* The body has no more frames.
EndOfStream ==
    /\ pc = "returned"
    /\ ~ended
    /\ pos = Len(StreamOf(outcome.value).source.frames)
    /\ ended' = TRUE
    /\ UNCHANGED <<op, output, pc, outcome, pos, yielded, buildInput, request, calls, locals>>

Next ==
    \/ Do_de_SendMessageCommand
    \/ Do_de_GenerateCodeFromCommandsCommand
    \/ NextEvent
    \/ EndOfStream

Spec == Init /\ [][Next]_vars

-----------------------------------------------------------------------------
(* Building a request *)

Idle == [statusCode |-> 0, headers |-> EmptyObj, body |-> EmptyText]

BuildInputs ==
    LET Endpoints ==
            {("hostname" :> "q.example.com") @@ ("path" :> base) @@ protocol @@ port :
                base \in BoundedSeq({"/", "v1"}, MaxBasePathLen),
                protocol \in Optional("protocol", {"http"}),
                port \in Optional("port", {8443})}
    IN  {[called |-> TRUE, endpoint |-> e, operation |-> o, path |-> p,
          resolvedHostname |-> rh, body |-> b] :
            e \in Endpoints, o \in Operations,
            p \in BoundedSeq({"/", "chat"}, MaxPathLen),
            rh \in {None, Some("override.example.com")},
            b \in {None, Some("{}")}}

InitReq ==
    /\ op = "none"
    /\ output = Idle
    /\ pc = "idle"
    /\ outcome = NoOutcome
    /\ pos = 0
    /\ yielded = << >>
    /\ ended = FALSE
    /\ buildInput \in BuildInputs
    /\ request = NoRequest
    /\ calls = << >>
    /\ locals = << >>

Do_buildHttpRpcRequest ==
    /\ buildInput.called
    /\ request = NoRequest
    /\ request' = buildHttpRpcRequest(buildInput.endpoint,
                      sharedHeaders(buildInput.operation), buildInput.path,
                      buildInput.resolvedHostname, buildInput.body)
    /\ UNCHANGED <<op, output, pc, outcome, pos, yielded, ended, buildInput, calls, locals>>

NextReq == Do_buildHttpRpcRequest

SpecReq == InitReq /\ [][NextReq]_vars

-----------------------------------------------------------------------------
(* Serializing a request *)

\* Every combination of the given optional fields.
Combos(fields) ==
    {[k \in keys |-> fields[k]] : keys \in SUBSET DOMAIN fields}

Document == ("query" :> "x") @@ ("limit" :> "5")

\* A name outside every schema.
Extra == "extra" :> "e"

UnknownMember(name) == "$unknown" :> <<name, ("future" :> "f")>>

\* Inputs of each serializer: well-formed and malformed Variants, fields
\* outside the shape, absent fields.
Samples(encoder) ==
    LET ToolUseInputs ==
            Combos(("input" :> Document) @@ ("name" :> "search") @@ ("toolUseId" :> "t1")
                   @@ Extra)

        AssistantResponseMessages ==
            {("content" :> "answer")} \cup
            {("content" :> "answer") @@ ("messageId" :> "m1") @@ ("toolUses" :> <<u>>) :
                u \in {("toolUseId" :> "t1") @@ ("input" :> Document),
                       ("name" :> "search") @@ Extra}}

        ImageSourceInputs ==
            {("bytes" :> <<1, 2>>), EmptyObj, UnknownMember("url"),
             ("bytes" :> <<1, 2>>) @@ UnknownMember("url")}

        ToolSpecificationInputs ==
            Combos(("description" :> "d") @@ ("name" :> "search")
                   @@ ("inputSchema" :> ("json" :> Document)) @@ Extra)

        ToolInputs ==
            {("toolSpecification" :> t) : t \in ToolSpecificationInputs}
            \cup {EmptyObj, UnknownMember("cachePoint"),
                  ("toolSpecification" :> ("name" :> "search")) @@ UnknownMember("cachePoint")}

        ToolResultContentBlockInputs ==
            {("json" :> Document), ("text" :> "out"), EmptyObj,
             ("json" :> Document) @@ ("text" :> "out"), UnknownMember("image")}

        ToolResultInputs ==
            {("toolUseId" :> "t1") @@ ("status" :> "success") @@ ("content" :> <<b>>) :
                b \in ToolResultContentBlockInputs}
            \cup {("toolUseId" :> "t1"), ("status" :> "error") @@ Extra}

        UserInputMessageContexts ==
            {("editorState" :> (("cursor" :> "1") @@ Extra)),
             ("tools" :> <<("toolSpecification" :> ("name" :> "search"))>>)
                @@ ("toolResults" :> <<("toolUseId" :> "t1") @@ ("content" :> <<("text" :> "out")>>)>>),
             ("tools" :> <<EmptyObj>>),
             ("toolResults" :> <<("toolUseId" :> "t1")
                                 @@ ("content" :> <<("json" :> Document) @@ ("text" :> "out")>>)>>),
             ("userSettings" :> ("hasConsentedToCrossRegionCalls" :> "true")) @@ Extra}

        UserInputMessages ==
            {("content" :> "hi"), ("content" :> "hi") @@ ("userIntent" :> "EXPLAIN") @@ Extra,
             ("content" :> "hi") @@ ("images" :> <<("format" :> "png") @@ ("source" :> ("bytes" :> <<1, 2>>))>>),
             ("content" :> "hi") @@ ("images" :> <<("format" :> "png") @@ ("source" :> EmptyObj)>>)}
            \cup {("content" :> "hi") @@ ("userInputMessageContext" :> c) :
                    c \in UserInputMessageContexts}

        ChatMessageInputs ==
            {("assistantResponseMessage" :> a) : a \in AssistantResponseMessages}
            \cup {("userInputMessage" :> u) : u \in UserInputMessages}
            \cup {EmptyObj, UnknownMember("systemMessage"),
                  ("assistantResponseMessage" :> ("content" :> "answer"))
                    @@ ("userInputMessage" :> ("content" :> "hi"))}

        ConversationStates ==
            {("chatTriggerType" :> "MANUAL") @@ ("currentMessage" :> m) @@ rest :
                m \in ChatMessageInputs,
                rest \in {EmptyObj,
                          ("conversationId" :> "c1")
                            @@ ("history" :> <<("userInputMessage" :> ("content" :> "hi")),
                                               ("assistantResponseMessage" :> ("content" :> "answer"))>>),
                          ("history" :> <<EmptyObj>>) @@ Extra,
                          ("customizationArn" :> "arn") @@ Extra}}

        SendMessageInputs ==
            {cs @@ rest :
                cs \in {("conversationState" :> c) : c \in ConversationStates} \cup {EmptyObj},
                rest \in {EmptyObj, ("profileArn" :> "arn") @@ ("source" :> "IDE"),
                          ("dryRun" :> "true") @@ Extra}}

        GenerateCodeFromCommandsInputs ==
            Combos(("outputFormat" :> "typescript/cdk")
                   @@ ("commands" :> ("commands" :> <<("command" :> "ls")>>))
                   @@ Extra)
    IN  CASE encoder = "se_ToolUse" -> ToolUseInputs
          [] encoder = "se_AssistantResponseMessage" -> AssistantResponseMessages
          [] encoder = "se_ImageSource" -> ImageSourceInputs
          [] encoder = "se_ToolSpecification" -> ToolSpecificationInputs
          [] encoder = "se_Tool" -> ToolInputs
          [] encoder = "se_ToolResultContentBlock" -> ToolResultContentBlockInputs
          [] encoder = "se_ToolResult" -> ToolResultInputs
          [] encoder = "se_UserInputMessageContext" -> UserInputMessageContexts
          [] encoder = "se_UserInputMessage" -> UserInputMessages
          [] encoder = "se_ChatMessage" -> ChatMessageInputs
          [] encoder = "se_ConversationState" -> ConversationStates
          [] encoder = "se_SendMessageRequest" -> SendMessageInputs
          [] encoder = "_json" -> GenerateCodeFromCommandsInputs

\* The input of each operation, on each endpoint of the client.
SeInputs ==
    LET SeEndpoints ==
            {("hostname" :> "q.example.com") @@ ("path" :> base) @@ protocol :
                base \in {<<"/">>, << >>, <<"/", "v1">>},
                protocol \in Optional("protocol", {"http"})}
        InputsOf(operation) ==
            IF operation = "SendMessage" THEN Samples("se_SendMessageRequest")
            ELSE Samples("_json")
    IN  UNION {{[called |-> TRUE, endpoint |-> e, operation |-> o, input |-> x] :
                    e \in SeEndpoints, x \in InputsOf(o)} : o \in Operations}

InitSe ==
    /\ buildInput \in SeInputs
    /\ op = buildInput.operation
    /\ output = Idle
    /\ pc = "idle"
    /\ outcome = NoOutcome
    /\ pos = 0
    /\ yielded = << >>
    /\ ended = FALSE
    /\ request = NoRequest
    /\ calls = << >>
    /\ locals = << >>

\* The serializer's promise settles: with the request handed on to be sent,
\* or with the failure and no request.
SettleSe(result) ==
    /\ outcome' = result
    /\ pc' = IF result.type = "throw" THEN "thrown" ELSE "returned"
    /\ request' = IF result.type = "throw" THEN request ELSE result.value
    /\ UNCHANGED <<op, output, pos, yielded, ended, buildInput, calls, locals>>

Do_se_SendMessageCommand ==
    /\ pc = "idle"
    /\ op = "SendMessage"
    /\ SettleSe(se_SendMessageCommand(buildInput.input, buildInput.endpoint))

Do_se_GenerateCodeFromCommandsCommand ==
    /\ pc = "idle"
    /\ op = "GenerateCodeFromCommands"
    /\ SettleSe(se_GenerateCodeFromCommandsCommand(buildInput.input, buildInput.endpoint))

NextSe == Do_se_SendMessageCommand \/ Do_se_GenerateCodeFromCommandsCommand

SpecSe == InitSe /\ [][NextSe]_vars

-----------------------------------------------------------------------------
(* Encoding one shape *)

\* A record with every field of its shape, and a field outside it.
FullRecord(encoder) ==
    CASE encoder = "se_ToolResult" ->
            ("content" :> <<("text" :> "out"), ("json" :> Document)>>)
            @@ ("status" :> "success") @@ ("toolUseId" :> "t1") @@ Extra
      [] encoder = "se_ImageBlock" ->
            ("format" :> "png") @@ ("source" :> ("bytes" :> <<1, 2>>)) @@ Extra
      [] encoder = "se_AssistantResponseMessage" ->
            ("content" :> "answer") @@ ("messageId" :> "m1")
            @@ ("followupPrompt" :> ("content" :> "more"))
            @@ ("references" :> <<("url" :> "u")>>)
            @@ ("supplementaryWebLinks" :> <<("url" :> "w")>>)
            @@ ("toolUses" :> <<("toolUseId" :> "t1") @@ ("input" :> Document)>>)
            @@ Extra
      [] encoder = "se_UserInputMessageContext" ->
            ("editorState" :> ("cursor" :> "1"))
            @@ ("shellState" :> ("shellName" :> "zsh"))
            @@ ("toolResults" :> <<("toolUseId" :> "t1") @@ ("content" :> <<("text" :> "out")>>)>>)
            @@ ("tools" :> <<("toolSpecification" :> ("name" :> "search"))>>)
            @@ ("userSettings" :> ("hasConsentedToCrossRegionCalls" :> "true"))
            @@ Extra
      [] encoder = "se_UserInputMessage" ->
            ("content" :> "hi")
            @@ ("images" :> <<("format" :> "png") @@ ("source" :> ("bytes" :> <<1, 2>>))>>)
            @@ ("origin" :> "IDE")
            @@ ("userInputMessageContext" :> ("editorState" :> ("cursor" :> "1")))
            @@ ("userIntent" :> "EXPLAIN") @@ Extra
      [] encoder = "se_ConversationState" ->
            ("chatTriggerType" :> "MANUAL") @@ ("conversationId" :> "c1")
            @@ ("currentMessage" :> ("userInputMessage" :> ("content" :> "hi")))
            @@ ("customizationArn" :> "arn")
            @@ ("history" :> <<("assistantResponseMessage" :> ("content" :> "answer"))>>)
            @@ Extra
      [] encoder = "se_InteractionComponentEntry" ->
            ("interactionComponentId" :> "i1")
            @@ ("interactionComponent" :>
                  (("text" :> ("content" :> "x")) @@ ("alert" :> ("type" :> "INFO"))))
            @@ Extra
      [] encoder = "se_SendMessageRequest" ->
            ("conversationState" :>
                (("chatTriggerType" :> "MANUAL")
                 @@ ("currentMessage" :> ("userInputMessage" :> ("content" :> "hi")))))
            @@ ("dryRun" :> "true") @@ ("profileArn" :> "arn") @@ ("source" :> "IDE")
            @@ Extra
      [] encoder = "se_ToolInputSchema" ->
            ("json" :> Document) @@ Extra
      [] encoder = "se_ToolSpecification" ->
            ("description" :> "d") @@ ("name" :> "search")
            @@ ("inputSchema" :> ("json" :> Document)) @@ Extra
      [] encoder = "se_ToolUse" ->
            ("input" :> Document) @@ ("name" :> "search") @@ ("toolUseId" :> "t1")
            @@ Extra

VariantEncoders ==
    {"se_ChatMessage", "se_ImageSource", "se_Tool", "se_ToolResultContentBlock"}

RecordEncoders ==
    {"se_AssistantResponseMessage", "se_ConversationState", "se_ImageBlock",
     "se_SendMessageRequest", "se_ToolInputSchema", "se_ToolResult",
     "se_ToolSpecification", "se_ToolUse", "se_UserInputMessage",
     "se_UserInputMessageContext"}

\* Every combination of the fields of the full record, and the samples.
EncoderInputs(encoder) ==
    IF encoder \in VariantEncoders THEN Samples(encoder)
    ELSE IF encoder \in {"se_ConversationState", "se_ToolResult", "se_UserInputMessage",
                         "se_UserInputMessageContext"}
    THEN Combos(FullRecord(encoder)) \cup Samples(encoder)
    ELSE Combos(FullRecord(encoder))

ListCoders ==
    {"se_ChatHistory", "se_ImageBlocks", "se_ToolResultContent", "se_ToolResults",
     "se_Tools", "se_ToolUses", "de_InteractionComponentEntryList"}

\* Lists of the inputs of the entry coder with null entries among them; for
\* the deserializer the list may also be missing.
ListInputs(coder) ==
    IF coder = "de_InteractionComponentEntryList"
    THEN {None} \cup
         {Some(list) :
            list \in BoundedSeq(EncoderInputs("se_InteractionComponentEntry") \cup {Null},
                                MaxListLen)}
    ELSE BoundedSeq(EncoderInputs(MirrorRules(coder)) \cup {Null}, MaxListLen)

InitEnc ==
    /\ op \in VariantEncoders \cup RecordEncoders \cup ListCoders
               \cup {"se_InteractionComponentEntry"}
    /\ buildInput \in {[called |-> TRUE, encoder |-> op, input |-> x] :
                         x \in IF op \in ListCoders THEN ListInputs(op)
                               ELSE EncoderInputs(op)}
    /\ output = Idle
    /\ pc = "idle"
    /\ outcome = NoOutcome
    /\ pos = 0
    /\ yielded = << >>
    /\ ended = FALSE
    /\ request = NoRequest
    /\ calls = << >>
    /\ locals = << >>

\* The encoder named returns its wire value or throws.
EncodeShape ==
    /\ pc = "idle"
    /\ outcome' = CallRule(op, buildInput.input)
    /\ pc' = IF outcome'.type = "throw" THEN "thrown" ELSE "returned"
    /\ UNCHANGED <<op, output, pos, yielded, ended, buildInput, request, calls, locals>>

\* The wire value goes through the decoder of the same shape.
DecodeShape ==
    /\ pc = "returned"
    /\ op # "de_InteractionComponentEntryList"
    /\ yielded = << >>
    /\ yielded' = <<Decode(op, outcome.value)>>
    /\ UNCHANGED <<op, output, pc, outcome, pos, ended, buildInput, request, calls, locals>>

NextEnc == EncodeShape \/ DecodeShape

SpecEnc == InitEnc /\ [][NextEnc]_vars

-----------------------------------------------------------------------------
(* Several calls on one client *)

\* context.endpoint() of the one client configuration
ClientEndpoint ==
    ("hostname" :> "q.example.com") @@ ("path" :> <<"/", "v1", "/">>)

\* Every invocation keeping its locals in the same place.
Slot_shared(call) == 1

\* headers, body, contents and output are locals and parameters of the
\* invocation: each invocation has its own.
Slot(call) == call

ConcCalls ==
    {[kind |-> "se", operation |-> "SendMessage", input |-> x] :
        x \in {("profileArn" :> "arn"),
               ("conversationState" :>
                    (("chatTriggerType" :> "MANUAL")
                     @@ ("currentMessage" :> ("userInputMessage" :> ("content" :> "hi"))))),
               ("conversationState" :>
                    (("chatTriggerType" :> "MANUAL") @@ ("currentMessage" :> EmptyObj)))}}
    \cup {[kind |-> "se", operation |-> "GenerateCodeFromCommands", input |-> x] :
            x \in {("outputFormat" :> "typescript/cdk"), ("outputFormat" :> "java/cdk")}}
    \cup {[kind |-> "de", operation |-> o, response |-> r] :
            o \in Operations,
            r \in {Response(200, ("x-amzn-requestid" :> "r-200"), EventStream(<< >>)),
                   Response(500, ("x-amzn-requestid" :> "r-500"),
                            JsonText(("__type" :> <<"InternalServerException">>)
                                     @@ ("message" :> "boom"))),
                   Response(403, ("x-amzn-errortype" :> <<"AccessDeniedException">>),
                            JsonText("message" :> "denied")),
                   Response(502, EmptyObj, Garbage)}}

InitConc ==
    /\ calls \in [1..MaxCalls ->
                    {[call |-> c, at |-> "start", result |-> NoOutcome] : c \in ConcCalls}]
    /\ locals = [slot \in 1..MaxCalls |-> EmptyObj]
    /\ op = "none"
    /\ output = Idle
    /\ pc = "idle"
    /\ outcome = NoOutcome
    /\ pos = 0
    /\ yielded = << >>
    /\ ended = FALSE
    /\ buildInput = NoBuildInput
    /\ request = NoRequest

Settled(call, result) ==
    calls' = [calls EXCEPT ![call].at = "settled", ![call].result = result]

Suspended(call, at, frame) ==
    /\ calls' = [calls EXCEPT ![call].at = at]
    /\ locals' = [locals EXCEPT ![Slot(call)] = frame]

\* se_*Command up to `await context.endpoint()` inside buildHttpRpcRequest
Call_se_Start(call) ==
    LET c == calls[call].call
        headers == sharedHeaders(c.operation)
        encoded == IF c.operation = "SendMessage" THEN se_SendMessageRequest(c.input)
                   ELSE Return(_json(c.input))
    IN  /\ calls[call].at = "start"
        /\ c.kind = "se"
        /\ IF encoded.type = "throw"
           THEN Settled(call, encoded) /\ UNCHANGED locals
           ELSE Suspended(call, "awaitEndpoint",
                          [headers |-> headers, path |-> <<"/">>,
                           body |-> JSON_stringify(encoded.value)])
        /\ UNCHANGED <<op, output, pc, outcome, pos, yielded, ended, buildInput, request>>

\* buildHttpRpcRequest after the endpoint has resolved
Call_se_Resume(call) ==
    LET frame == locals[Slot(call)]
    IN  /\ calls[call].at = "awaitEndpoint"
        /\ Settled(call, Return(buildHttpRpcRequest(ClientEndpoint, frame.headers,
                                                    frame.path, None, Some(frame.body))))
        /\ UNCHANGED <<op, output, pc, outcome, pos, yielded, ended, buildInput, request,
                       locals>>

\* de_*Command up to `await parseErrorBody(output.body, context)`
Call_de_Start(call) ==
    LET c == calls[call].call
    IN  /\ calls[call].at = "start"
        /\ c.kind = "de"
        /\ IF c.response.statusCode >= 300
           THEN Suspended(call, "awaitBody", [output |-> c.response])
           ELSE /\ Settled(call, IF c.operation = "SendMessage"
                                 THEN de_SendMessageCommand(c.response)
                                 ELSE de_GenerateCodeFromCommandsCommand(c.response))
                /\ UNCHANGED locals
        /\ UNCHANGED <<op, output, pc, outcome, pos, yielded, ended, buildInput, request>>

\* de_CommandError after the body has been read
Call_de_Resume(call) ==
    LET frame == locals[Slot(call)]
    IN  /\ calls[call].at = "awaitBody"
        /\ Settled(call, de_CommandError(frame.output))
        /\ UNCHANGED <<op, output, pc, outcome, pos, yielded, ended, buildInput, request,
                       locals>>

NextConc ==
    \E call \in 1..MaxCalls :
        \/ Call_se_Start(call)
        \/ Call_se_Resume(call)
        \/ Call_de_Start(call)
        \/ Call_de_Resume(call)

SpecConc == InitConc /\ [][NextConc]_vars

-----------------------------------------------------------------------------
(* The web page reader: WebScrape.invoke *)

\* What an awaited call may reject with: an Error, a value that is no Error,
\* and for the navigation its timeout.
Failures(call) ==
    {[exception |-> "Error", fields |-> ("message" :> call)],
     [exception |-> "no Error", fields |-> ("text" :> call)]}
    \cup (IF call = "page.goto"
          THEN {[exception |-> "TimeoutError",
                 fields |-> ("message" :> "Timeout 10000ms exceeded.")]}
          ELSE {})

InitWs ==
    /\ op = "WebScrape.invoke"
    /\ buildInput \in {[called |-> TRUE, url |-> "https://example.com/", rawHTML |-> r] :
                         r \in BOOLEAN}
    /\ output = Idle
    /\ pc = "chromium.launch"
    /\ outcome = NoOutcome
    /\ pos = 0
    /\ yielded = << >>
    /\ ended = FALSE
    /\ request = NoRequest
    /\ calls = << >>
    /\ locals = << >>

\* await call(...) inside the try block: the call resolves with one of the
\* values, which the locals take, and the block goes on; or it rejects and
\* the catch block takes the error.
Awaited(call, next, values) ==
    /\ pc = call
    /\ \/ /\ \E v \in values : locals' = v @@ locals
          /\ calls' = Append(calls, [call |-> call, resolved |-> TRUE])
          /\ pc' = next
       \/ /\ \E e \in Failures(call) : locals' = ("error" :> e) @@ locals
          /\ calls' = Append(calls, [call |-> call, resolved |-> FALSE])
          /\ pc' = "catch"
    /\ UNCHANGED <<op, output, pos, yielded, ended, buildInput, request>>

Ws_launch ==
    /\ Awaited("chromium.launch", "browser.newContext", {"browser" :> "chromium"})
    /\ UNCHANGED outcome

Ws_newContext ==
    /\ Awaited("browser.newContext", "context.newPage", {EmptyObj})
    /\ UNCHANGED outcome

Ws_newPage ==
    /\ Awaited("context.newPage", "page.setExtraHTTPHeaders", {EmptyObj})
    /\ UNCHANGED outcome

Ws_setExtraHTTPHeaders ==
    /\ Awaited("page.setExtraHTTPHeaders", "page.goto", {EmptyObj})
    /\ UNCHANGED outcome

Ws_goto ==
    /\ Awaited("page.goto", "page.waitForLoadState", {EmptyObj})
    /\ UNCHANGED outcome

Ws_waitForLoadState ==
    /\ Awaited("page.waitForLoadState",
               IF buildInput.rawHTML THEN "getRawDocument" ELSE "extractMainContent",
               {EmptyObj})
    /\ UNCHANGED outcome

\* content = await this.getRawDocument(page) or this.extractMainContent(page),
\* cut to the first webScrapeToolResponseSize characters.
Ws_content ==
    /\ \E call \in {"getRawDocument", "extractMainContent"} :
          Awaited(call, "page.title",
                  {"content" :>
                      (IF Len(text) > webScrapeToolResponseSize
                       THEN SubSeq(text, 1, webScrapeToolResponseSize) ELSE text) :
                   text \in BoundedSeq({"c"}, MaxContentLen)})
    /\ UNCHANGED outcome

Ws_title ==
    /\ Awaited("page.title", "getMetaDescription", {"title" :> "Example"})
    /\ UNCHANGED outcome

\* The last call of the try block, and its return statement.
Ws_getMetaDescription ==
    /\ Awaited("getMetaDescription", "finally", {"description" :> d : d \in {"", "about"}})
    /\ outcome' =
         IF pc' = "finally"
         THEN Return([output |->
                        [kind |-> "Json",
                         content |-> [title |-> locals'["title"],
                                      description |-> locals'["description"],
                                      content |-> locals'["content"]]]])
         ELSE outcome

\* errorMessage = error instanceof Error ? error.message : String(error)
Ws_catch ==
    /\ pc = "catch"
    /\ LET error == locals["error"]
           errorMessage == IF error.exception = "no Error" THEN error.fields["text"]
                           ELSE error.fields["message"]
       IN  outcome' = Return([output |->
                                [kind |-> "Text",
                                 content |-> <<"Error reading web page: ", errorMessage>>,
                                 success |-> FALSE]])
    /\ pc' = "finally"
    /\ UNCHANGED <<op, output, pos, yielded, ended, buildInput, request, calls, locals>>

\* if (browser) { await browser.close() }: a rejection of close leaves the
\* finally block as the completion of invoke, in place of the value returned.
Ws_finally ==
    /\ pc = "finally"
    /\ pc' = "completed"
    /\ IF Has(locals, "browser")
       THEN \/ /\ calls' = Append(calls, [call |-> "browser.close", resolved |-> TRUE])
               /\ UNCHANGED outcome
            \/ /\ calls' = Append(calls, [call |-> "browser.close", resolved |-> FALSE])
               /\ \E e \in Failures("browser.close") : outcome' = Throw(e)
       ELSE UNCHANGED <<calls, outcome>>
    /\ UNCHANGED <<op, output, pos, yielded, ended, buildInput, request, locals>>

NextWs ==
    \/ Ws_launch
    \/ Ws_newContext
    \/ Ws_newPage
    \/ Ws_setExtraHTTPHeaders
    \/ Ws_goto
    \/ Ws_waitForLoadState
    \/ Ws_content
    \/ Ws_title
    \/ Ws_getMetaDescription
    \/ Ws_catch
    \/ Ws_finally

SpecWs == InitWs /\ [][NextWs]_vars

-----------------------------------------------------------------------------
(* Properties of the event stream *)

\* The frames of the response body, and the event name of the i-th.
Frames == output.body.frames
NameOf(frame) == frame.headers[":event-type"]

\* The event names each deserializer decodes as an exception.
ErrorEventNames(operation) ==
    IF operation = "SendMessage" THEN {"error"}
    ELSE {"Error", "QuotaLevelExceededError", "ValidationError"}

\* The event names of each deserializer's decode table.
DecodeTable(operation) ==
    IF operation = "SendMessage"
    THEN {"messageMetadataEvent", "assistantResponseEvent", "dryRunSucceedEvent",
          "codeReferenceEvent", "supplementaryWebLinksEvent", "followupPromptEvent",
          "codeEvent", "intentsEvent", "interactionComponentsEvent", "toolUseEvent",
          "citationEvent", "invalidStateEvent", "error"}
    ELSE {"codeEvent", "Error", "QuotaLevelExceededError", "ValidationError"}

\* C1: once a frame with a reserved error-event name has been decoded and
\* yielded, the sequence is over: the error is the last event yielded and no
\* later frame is ever read, for both operations.
C1_ErrorEventEndsStream ==
    pc = "returned" =>
        \A i \in 1..pos :
            NameOf(Frames[i]) \in ErrorEventNames(op) =>
                /\ pos = i
                /\ ended
                /\ Len(yielded) = i
                /\ TagOf(yielded[i]) = NameOf(Frames[i])
                /\ IsException(ValueOf(yielded[i]))

\* [metadataEvent, textEvent, errorEvent, textEvent2]: three events yielded,
\* the last one the error, the fourth frame never read.
C1_Witness ==
    /\ pc = "returned"
    /\ op = "SendMessage"
    /\ Len(Frames) = 4
    /\ <<NameOf(Frames[1]), NameOf(Frames[2]), NameOf(Frames[3]), NameOf(Frames[4])>>
         = <<"messageMetadataEvent", "assistantResponseEvent", "error",
             "assistantResponseEvent">>
    /\ ended
    /\ pos = 3
    /\ Len(yielded) = 3
    /\ TagOf(yielded[3]) = "error"

\* C2: in a stream without error frames every frame read so far has yielded
\* exactly one event, in arrival order; a frame whose name is not in the decode
\* table yields $unknown, and the iteration ends only at the end of the body.
C2_UnknownEventContinues ==
    (pc = "returned"
     /\ \A i \in 1..Len(Frames) : NameOf(Frames[i]) \notin ErrorEventNames(op)) =>
        /\ Len(yielded) = pos
        /\ \A i \in 1..pos :
            /\ TagOf(yielded[i]) =
                 (IF NameOf(Frames[i]) \in DecodeTable(op) THEN NameOf(Frames[i])
                  ELSE "$unknown")
            /\ (NameOf(Frames[i]) \in DecodeTable(op) \ {"interactionComponentsEvent"}
                    => ValueOf(yielded[i]) = Frames[i].body.value)
        /\ (ended => pos = Len(Frames))

\* [metadataEvent, futureEvent, textEvent]: all three yielded, the middle one
\* as $unknown.
C2_Witness ==
    /\ pc = "returned"
    /\ op = "SendMessage"
    /\ Len(Frames) = 3
    /\ <<NameOf(Frames[1]), NameOf(Frames[2]), NameOf(Frames[3])>>
         = <<"messageMetadataEvent", "futureEvent", "assistantResponseEvent">>
    /\ ended
    /\ Len(yielded) = 3
    /\ TagOf(yielded[2]) = "$unknown"
    /\ TagOf(yielded[3]) = "assistantResponseEvent"

-----------------------------------------------------------------------------
(* Properties of the response deserializers *)

\* C3: a response with status >= 300 makes the command fail with an exception,
\* without a result and without an event read; a response with status < 300
\* returns the metadata of the response with the event sequence over its body.
C3_StatusDecidesOutcome ==
    pc # "received" =>
        IF output.statusCode >= 300
        THEN /\ pc = "thrown"
             /\ outcome.type = "throw"
             /\ IsException(outcome.value)
             /\ pos = 0 /\ yielded = << >> /\ ~ended
        ELSE /\ pc = "returned"
             /\ outcome.type = "return"
             /\ DOMAIN outcome.value =
                  {"$metadata", IF op = "SendMessage" THEN "sendMessageResponse"
                                ELSE "generatedCodeFromCommandsResponse"}
             /\ outcome.value["$metadata"] = deserializeMetadata(output)
             /\ StreamOf(outcome.value).source = output.body
             /\ Len(yielded) <= pos

C3_Witness ==
    /\ pc = "thrown"
    /\ output.statusCode = 300
    /\ IsException(outcome.value)

-----------------------------------------------------------------------------
(* Properties of the error dispatcher *)

\* An error response whose body the dispatcher could parse.
Dispatched == pc = "thrown" /\ parseErrorBody(output.body).ok

ParsedBody == parseErrorBody(output.body).value

\* The error codes a response carries, as sent: in its header and in the
\* __type field of its body.
HeaderCode ==
    IF Has(output.headers, "x-amzn-errortype")
    THEN Some(output.headers["x-amzn-errortype"]) ELSE None

BodyCode ==
    IF output.body.kind = "json" /\ Has(output.body.value, "__type")
    THEN Some(output.body.value["__type"]) ELSE None

\* The code the dispatcher goes by.
WireCode == IF HeaderCode # None THEN HeaderCode ELSE BodyCode

\* code is "X" or "N#X" for some namespace prefix N.
Names(code, X) ==
    \/ code = <<X>>
    \/ Len(code) >= 3 /\ code[Len(code)] = X /\ code[Len(code) - 1] = "#"

\* The exception kind a code stands for.
KindOf(code) ==
    IF \E X \in KnownNames : Names(code, X)
    THEN CHOOSE X \in KnownNames : Names(code, X)
    ELSE "QDeveloperStreamingServiceException"

\* C4: the codes "X" and "N#X" resolve to the exception kind X for every known
\* name X and every prefix N; a code whose name differs from X in letter case
\* does not resolve to X.
C4_QualifiedAndBareCodesAgree ==
    (Dispatched /\ WireCode # None) =>
        \A X \in KnownNames :
            /\ Names(WireCode[1], X) => outcome.value.exception = X
            /\ (\E n \in InputNames :
                    n # X /\ FoldCase(n) = FoldCase(X) /\ Names(WireCode[1], n))
                => outcome.value.exception # X

\* A qualified code with a foreign namespace resolved to its kind.
C4_Witness ==
    /\ Dispatched
    /\ WireCode = Some(<<"com.example.service", "#", "ValidationException">>)
    /\ outcome.value.exception = "ValidationException"

\* C5: every error response whose code matches no known exception name fails
\* with the generic exception of the service, which carries the code and the
\* parsed body.
C5_UnknownCodeThrowsDefault ==
    (pc # "received" /\ output.statusCode >= 300
     /\ (WireCode = None \/ KindOf(WireCode[1]) = "QDeveloperStreamingServiceException")) =>
        /\ pc = "thrown"
        /\ outcome.value.exception = "QDeveloperStreamingServiceException"
        /\ Has(outcome.value.fields, "body")
        /\ output.body.kind = "json" => outcome.value.fields["body"] = output.body.value
        /\ WireCode # None =>
            /\ Has(outcome.value.fields, "errorCode")
            /\ outcome.value.fields["errorCode"] = sanitizeErrorCode(WireCode[1])

\* An error response with an unknown code whose body is not JSON: the failure
\* is the exception of the parser.
C5_Witness ==
    /\ pc = "thrown"
    /\ output.statusCode = 500
    /\ WireCode = Some(<<"FooException">>)
    /\ output.body = Garbage
    /\ outcome.value.exception = "SyntaxError"

\* C7: when the header and the body both carry a code, the header's code
\* decides the exception kind; the body's code decides only without a header.
C7_HeaderCodeWins ==
    Dispatched =>
        /\ HeaderCode # None => outcome.value.exception = KindOf(HeaderCode[1])
        /\ (HeaderCode = None /\ BodyCode # None)
                => outcome.value.exception = KindOf(BodyCode[1])

\* A header and a body that name different kinds.
C7_Witness ==
    /\ Dispatched
    /\ HeaderCode = Some(<<"ValidationException">>)
    /\ BodyCode = Some(<<"ThrottlingException">>)
    /\ outcome.value.exception = "ValidationException"

\* C8: the exception of a recognized code carries the message of the body and
\* the metadata derived from the status and the headers of the response.
C8_MetadataFromResponseOnly ==
    (Dispatched /\ outcome.value.exception \in KnownNames) =>
        /\ outcome.value.fields["$metadata"] = deserializeMetadata(output)
        /\ Has(ParsedBody, "message")
                => outcome.value.fields["message"] = ParsedBody["message"]

\* An error body whose own $metadata field took the place of the metadata of
\* the response.
C8_Witness ==
    /\ Dispatched
    /\ outcome.value.exception = "InternalServerException"
    /\ output.statusCode = 500
    /\ Has(output.headers, "x-amzn-requestid")
    /\ Has(ParsedBody, "message")
    /\ outcome.value.fields["message"] = "boom"
    /\ outcome.value.fields["$metadata"] = ForgedMetadata
    /\ deserializeMetadata(output) # ForgedMetadata

-----------------------------------------------------------------------------
(* Properties of the metadata *)

\* The metadata attached to the result or to the exception.
AttachedMetadata ==
    IF pc = "returned" THEN outcome.value["$metadata"]
    ELSE outcome.value.fields["$metadata"]

\* C9: httpStatusCode is the status; requestId is the first present of
\* x-amzn-requestid, x-amzn-request-id, x-amz-request-id and is absent when
\* none is; extendedRequestId is x-amz-id-2 and cfId is x-amz-cf-id.  This is
\* the metadata of every result returned.
C9_MetadataHeaderMapping ==
    pc # "received" =>
        LET md == deserializeMetadata(output)
            h == output.headers
            First ==
                IF Has(h, "x-amzn-requestid") THEN Some(h["x-amzn-requestid"])
                ELSE IF Has(h, "x-amzn-request-id") THEN Some(h["x-amzn-request-id"])
                ELSE IF Has(h, "x-amz-request-id") THEN Some(h["x-amz-request-id"])
                ELSE None
        IN  /\ md["httpStatusCode"] = output.statusCode
            /\ Has(md, "requestId") <=> First # None
            /\ First # None => md["requestId"] = First[1]
            /\ Has(md, "extendedRequestId") <=> Has(h, "x-amz-id-2")
            /\ Has(h, "x-amz-id-2") => md["extendedRequestId"] = h["x-amz-id-2"]
            /\ Has(md, "cfId") <=> Has(h, "x-amz-cf-id")
            /\ Has(h, "x-amz-cf-id") => md["cfId"] = h["x-amz-cf-id"]
            /\ pc = "returned" => AttachedMetadata = md

\* An empty first header still wins over the later ones.
C9_Witness ==
    /\ pc = "returned"
    /\ Has(output.headers, "x-amzn-requestid")
    /\ output.headers["x-amzn-requestid"] = ""
    /\ Has(output.headers, "x-amz-request-id")
    /\ AttachedMetadata["requestId"] = ""
    /\ ~Has(AttachedMetadata, "cfId")

-----------------------------------------------------------------------------
(* Properties of the in-stream error events *)

\* The exception class behind each error event name.
ErrorEventKind(name) ==
    IF name \in {"error", "Error"} THEN "InternalServerException"
    ELSE IF name = "QuotaLevelExceededError" THEN "ServiceQuotaExceededException"
    ELSE "ValidationException"

\* The kind the top-level dispatcher chooses for the code of a payload.
TopLevelKind(payload) ==
    de_CommandError(Response(500, EmptyObj, payload)).value.exception

-----------------------------------------------------------------------------
(* Properties of the request envelope *)

-----------------------------------------------------------------------------
(* Properties of the request serializers *)

\* C11: every request a command serializer produces has method POST, the
\* content type of the protocol and the target header naming the service and
\* the operation of that command, whatever the input and the endpoint are.
C11_DispatchHeaders ==
    request # NoRequest =>
        /\ request["method"] = "POST"
        /\ DOMAIN request["headers"] = {"content-type", "x-amz-target"}
        /\ request["headers"]["content-type"] = "application/x-amz-json-1.0"
        /\ request["headers"]["x-amz-target"]
                = <<"AmazonQDeveloperStreamingService", ".", op>>

\* A GenerateCodeFromCommands request on an endpoint with its own protocol.
C11_Witness ==
    /\ pc = "returned"
    /\ op = "GenerateCodeFromCommands"
    /\ Has(buildInput.endpoint, "protocol")
    /\ Has(buildInput.input, "extra")
    /\ request["headers"]["x-amz-target"]
            = <<"AmazonQDeveloperStreamingService", ".", "GenerateCodeFromCommands">>

-----------------------------------------------------------------------------
(* Properties of the shape encoders *)

\* The alternatives each Variant encoder knows.
KnownAlternatives(encoder) ==
    CASE encoder = "se_ChatMessage" -> {"assistantResponseMessage", "userInputMessage"}
      [] encoder = "se_ImageSource" -> {"bytes"}
      [] encoder = "se_Tool" -> {"toolSpecification"}
      [] encoder = "se_ToolResultContentBlock" -> {"json", "text"}

\* The payload of an alternative under that alternative's own sub-encoder.
SubEncoded(tag, payload) ==
    CASE tag = "assistantResponseMessage" -> se_AssistantResponseMessage(payload)
      [] tag = "userInputMessage" -> se_UserInputMessage(payload)
      [] tag = "bytes" -> Return(base64Encoder(payload))
      [] tag = "toolSpecification" -> se_ToolSpecification(payload)
      [] tag = "json" -> se_SensitiveDocument(payload)
      [] tag = "text" -> Return(payload)

\* The alternatives populated in the input of the encoder.
Populated == DOMAIN buildInput.input \cap (KnownAlternatives(op) \cup {"$unknown"})

\* C12: a Variant with exactly one populated known alternative, whose payload
\* its sub-encoder accepts, is encoded as the object with the one key named
\* after the alternative and the sub-encoded payload as its value.
C12_VariantEncodesUnderOwnName ==
    (op \in VariantEncoders /\ pc # "idle") =>
        \A tag \in KnownAlternatives(op) :
            (Populated = {tag} /\ SubEncoded(tag, buildInput.input[tag]).type = "return") =>
                /\ pc = "returned"
                /\ DOMAIN outcome.value = {tag}
                /\ outcome.value[tag] = SubEncoded(tag, buildInput.input[tag]).value

\* A ChatMessage holding a user message with a tool result, encoded under
\* userInputMessage.
C12_Witness ==
    /\ op = "se_ChatMessage"
    /\ pc = "returned"
    /\ Populated = {"userInputMessage"}
    /\ Has(buildInput.input["userInputMessage"], "userInputMessageContext")
    /\ DOMAIN outcome.value = {"userInputMessage"}
    /\ outcome.value["userInputMessage"]["content"] = "hi"

-----------------------------------------------------------------------------
(* Properties of malformed Variants *)

Elems(list) == {list[i] : i \in DOMAIN list}

FieldOf(obj, key) == IF Has(obj, key) THEN {obj[key]} ELSE {}

ListOf(obj, key) == IF Has(obj, key) THEN Elems(obj[key]) ELSE {}

\* The Variants an input of SendMessage holds, by kind.
ChatMessagesIn(input) ==
    UNION {FieldOf(cs, "currentMessage") \cup ListOf(cs, "history") :
            cs \in FieldOf(input, "conversationState")}

UserInputMessagesIn(input) ==
    UNION {FieldOf(m, "userInputMessage") : m \in ChatMessagesIn(input)}

ImageSourcesIn(input) ==
    UNION {UNION {FieldOf(b, "source") : b \in ListOf(u, "images")} :
            u \in UserInputMessagesIn(input)}

ContextsIn(input) ==
    UNION {FieldOf(u, "userInputMessageContext") : u \in UserInputMessagesIn(input)}

ToolsIn(input) == UNION {ListOf(c, "tools") : c \in ContextsIn(input)}

ContentBlocksIn(input) ==
    UNION {UNION {ListOf(r, "content") : r \in ListOf(c, "toolResults")} :
            c \in ContextsIn(input)}

\* No alternative, or more than one, is populated.
Malformed(variant, encoder) ==
    Cardinality(DOMAIN variant \cap (KnownAlternatives(encoder) \cup {"$unknown"})) # 1

HoldsMalformedVariant(input) ==
    \/ \E v \in ChatMessagesIn(input) : Malformed(v, "se_ChatMessage")
    \/ \E v \in ImageSourcesIn(input) : Malformed(v, "se_ImageSource")
    \/ \E v \in ToolsIn(input) : Malformed(v, "se_Tool")
    \/ \E v \in ContentBlocksIn(input) : Malformed(v, "se_ToolResultContentBlock")

\* C13: an input holding, at any level, a Variant with no populated
\* alternative or with more than one makes the serializer fail, and a
\* serializer that failed has built no request.
C13_MalformedVariantFailsUnsent ==
    /\ (op = "SendMessage" /\ pc # "idle" /\ HoldsMalformedVariant(buildInput.input))
            => (pc = "thrown" /\ outcome.value = TypeError)
    /\ pc = "thrown" => request = NoRequest

\* A current message with both alternatives populated: the call failed and
\* there is no request.
C13_Witness ==
    /\ op = "SendMessage"
    /\ pc = "thrown"
    /\ Has(buildInput.input, "conversationState")
    /\ DOMAIN buildInput.input["conversationState"]["currentMessage"]
            = {"assistantResponseMessage", "userInputMessage"}
    /\ ~Has(buildInput.input["conversationState"], "history")
    /\ request = NoRequest

-----------------------------------------------------------------------------
(* Properties of the record encoders *)

\* The fields of each record shape.
Schema(encoder) ==
    CASE encoder = "se_AssistantResponseMessage" ->
            {"content", "followupPrompt", "messageId", "references",
             "supplementaryWebLinks", "toolUses"}
      [] encoder = "se_ConversationState" ->
            {"chatTriggerType", "conversationId", "currentMessage",
             "customizationArn", "history"}
      [] encoder = "se_ImageBlock" -> {"format", "source"}
      [] encoder = "se_SendMessageRequest" ->
            {"conversationState", "dryRun", "profileArn", "source"}
      [] encoder = "se_ToolInputSchema" -> {"json"}
      [] encoder = "se_ToolResult" -> {"content", "status", "toolUseId"}
      [] encoder = "se_ToolSpecification" -> {"description", "inputSchema", "name"}
      [] encoder = "se_ToolUse" -> {"input", "name", "toolUseId"}
      [] encoder = "se_UserInputMessage" ->
            {"content", "images", "origin", "userInputMessageContext", "userIntent"}
      [] encoder = "se_UserInputMessageContext" ->
            {"additionalContext", "appStudioContext", "consoleState", "diagnostic",
             "editorState", "envState", "gitState", "shellState", "toolResults",
             "tools", "userSettings"}

\* The rule of a field of a shape, applied to a value.
FieldEncoded(encoder, key, value) == CallRule(MirrorRules(encoder)[key], value)

\* C14: a field absent from the record is not a key of the wire object, and
\* no sub-encoder runs on it: an encoding fails only where the sub-encoder of
\* a field that is present fails.
C14_AbsentFieldsNotEmitted ==
    (op \in RecordEncoders /\ pc # "idle") =>
        LET input == buildInput.input
        IN  /\ pc = "returned" =>
                \A k \in Schema(op) : ~Has(input, k) => ~Has(outcome.value, k)
            /\ pc = "thrown" =>
                \E k \in DOMAIN input \cap Schema(op) :
                    FieldEncoded(op, k, input[k]).type = "throw"

\* A conversation state with neither a current message nor a history.
C14_Witness ==
    /\ op = "se_ConversationState"
    /\ pc = "returned"
    /\ DOMAIN buildInput.input = {"chatTriggerType", "customizationArn"}
    /\ DOMAIN outcome.value = {"chatTriggerType", "customizationArn"}

-----------------------------------------------------------------------------
(* Properties of unknown fields *)

RECURSIVE HasPath(_, _)
\* The value has something at the path of keys and indices.
HasPath(value, path) ==
    IF path = << >> THEN TRUE
    ELSE /\ Head(path) \in DOMAIN value
         /\ HasPath(value[Head(path)], Tail(path))

\* Where the inputs carry a field outside the schema of its record.
ExtraPaths ==
    << <<"extra">>,
       <<"conversationState", "extra">>,
       <<"conversationState", "currentMessage", "userInputMessage", "extra">>,
       <<"conversationState", "currentMessage", "userInputMessage",
         "userInputMessageContext", "extra">>,
       <<"conversationState", "currentMessage", "userInputMessage",
         "userInputMessageContext", "editorState", "extra">>,
       <<"conversationState", "currentMessage", "assistantResponseMessage",
         "toolUses", 1, "extra">> >>

\* C15: a field of the input whose name is outside the schema of its record,
\* at any level, is nowhere in the body of the request.
C15_OnlySchemaFieldsEmitted ==
    request # NoRequest =>
        \A i \in DOMAIN ExtraPaths :
            HasPath(buildInput.input, ExtraPaths[i])
                => ~HasPath(request["body"].value, ExtraPaths[i])

\* A GenerateCodeFromCommands request whose body holds the unknown field of
\* its input.
C15_Witness ==
    /\ op = "GenerateCodeFromCommands"
    /\ pc = "returned"
    /\ DOMAIN buildInput.input = {"outputFormat", "commands", "extra"}
    /\ Has(request["body"].value, "extra")
    /\ request["body"].value["extra"] = "e"

-----------------------------------------------------------------------------
(* Properties of unknown keys of an event *)

\* The fields of the events the streams carry.
EventSchema(name) ==
    CASE name = "messageMetadataEvent" -> {"conversationId", "utteranceId"}
      [] name = "assistantResponseEvent" -> {"content"}
      [] name = "codeEvent" -> {"content"}
      [] name = "interactionComponentsEvent" -> {"interactionComponentEntries"}

EventsWithSchema ==
    {"messageMetadataEvent", "assistantResponseEvent", "codeEvent",
     "interactionComponentsEvent"}

\* C16: a key of an event payload that is not in the schema of the event is
\* not in the decoded event.
C16_OnlySchemaKeysDecoded ==
    pc = "returned" =>
        \A i \in 1..Len(yielded) :
            TagOf(yielded[i]) \in EventsWithSchema =>
                \A k \in DOMAIN Frames[i].body.value \ EventSchema(TagOf(yielded[i])) :
                    ~Has(ValueOf(yielded[i]), k)

\* An assistantResponseEvent decoded with the unknown key of its payload.
C16_Witness ==
    /\ pc = "returned"
    /\ op = "SendMessage"
    /\ Len(yielded) = 1
    /\ TagOf(yielded[1]) = "assistantResponseEvent"
    /\ Has(Frames[1].body.value, "futureField")
    /\ ValueOf(yielded[1]) = ("content" :> "t2") @@ ("futureField" :> "f")

-----------------------------------------------------------------------------
(* Properties of the failures of an error response *)

\* The error kinds of the design: the named service exceptions and the
\* generic exception of the service.
DefinedErrorKinds == KnownNames \cup {"QDeveloperStreamingServiceException"}

\* C17: a response with status >= 300 always fails, and always with one of
\* the defined error kinds, whatever its body is.
C17_NoRawParseException ==
    (pc # "received" /\ output.statusCode >= 300) =>
        /\ pc = "thrown"
        /\ outcome.value.exception \in DefinedErrorKinds

\* An error response without a code whose body is not JSON: the failure is
\* the exception of the parser, without metadata.
C17_Witness ==
    /\ pc = "thrown"
    /\ output.statusCode = 300
    /\ output.body = Garbage
    /\ WireCode = None
    /\ outcome.value = [exception |-> "SyntaxError", fields |-> EmptyObj]

-----------------------------------------------------------------------------
(* Properties of the set of named exceptions *)

GenericKind == "QDeveloperStreamingServiceException"

\* The kind the dispatcher selects for a code in the header of the response.
SelectedKind(code) ==
    de_CommandError(
        Response(output.statusCode, ("x-amzn-errortype" :> code), JsonText(EmptyObj))
    ).value.exception

\* The named kinds some code selects.
NamedKinds == {SelectedKind(code) : code \in Codes} \ {GenericKind}

EightKinds ==
    {"AccessDeniedException", "ConflictException", "DryRunOperationException",
     "InternalServerException", "ResourceNotFoundException",
     "ServiceQuotaExceededException", "ThrottlingException", "ValidationException"}

\* The codes selecting a named kind and the generic kind for every other code.
FixedCodeSet(kinds) ==
    /\ outcome.value.exception \in kinds \cup {GenericKind}
    /\ \A X \in kinds :
        outcome.value.exception = X <=> (WireCode # None /\ Names(WireCode[1], X))

\* C18 as stated: the dispatcher selects exactly 7 named kinds, by a fixed set
\* of codes, and the generic kind for every other code.
C18_SevenNamedKinds ==
    Dispatched =>
        /\ Cardinality(NamedKinds) = 7
        /\ FixedCodeSet(NamedKinds)

\* C18 amended: the dispatcher selects exactly the 8 named kinds, each by the
\* codes "X" and "N#X" of its own name, and the generic kind for every other
\* code and for a response without a code.
C18_EightNamedKinds ==
    Dispatched =>
        /\ NamedKinds = EightKinds
        /\ Cardinality(NamedKinds) = 8
        /\ FixedCodeSet(EightKinds)

\* The eighth kind selected by its qualified code.
C18_Witness ==
    /\ Dispatched
    /\ WireCode = Some(<<Namespace, "#", "DryRunOperationException">>)
    /\ outcome.value.exception = "DryRunOperationException"
    /\ Cardinality(NamedKinds) = 8

-----------------------------------------------------------------------------
(* Properties of concurrent calls *)

\* What a call gives when it runs alone.
Alone(c) ==
    IF c.kind = "se"
    THEN IF c.operation = "SendMessage"
         THEN se_SendMessageCommand(c.input, ClientEndpoint)
         ELSE se_GenerateCodeFromCommandsCommand(c.input, ClientEndpoint)
    ELSE IF c.operation = "SendMessage"
         THEN de_SendMessageCommand(c.response)
         ELSE de_GenerateCodeFromCommandsCommand(c.response)

\* C19: whatever the interleaving of the steps of the calls on one client,
\* each call settles with the request, result or exception it gives when it
\* runs alone.
C19_CallsDoNotInterfere ==
    \A call \in DOMAIN calls :
        calls[call].at = "settled" => calls[call].result = Alone(calls[call].call)

\* A serialization and a deserialization that were both suspended at once,
\* the first one settled since.
C19_Witness ==
    /\ DOMAIN calls = 1..MaxCalls
    /\ calls[1].call.kind = "se"
    /\ calls[1].at = "settled"
    /\ calls[1].result.type = "return"
    /\ calls[2].call.kind = "de"
    /\ calls[2].at = "awaitBody"
    /\ locals[1] # EmptyObj
    /\ locals[2] # EmptyObj

-----------------------------------------------------------------------------
(* Properties of the round trip *)

\* Every combination of the fields of the shape, none outside it.
Typed(full) == Combos([k \in DOMAIN full \ DOMAIN Extra |-> full[k]])

\* Records of each shape with no field outside the shape at any level: the
\* combinations of the full record, and a record holding an unrecognized
\* alternative.
TypedRecords(encoder) ==
    IF encoder \in VariantEncoders \cup ListCoders THEN {}
    ELSE Typed(FullRecord(encoder))
         \cup (CASE encoder = "se_ConversationState" ->
                        {("chatTriggerType" :> "MANUAL")
                         @@ ("currentMessage" :> UnknownMember("systemMessage"))}
                  [] encoder = "se_ToolResult" ->
                        {("toolUseId" :> "t1") @@ ("status" :> "success")
                         @@ ("content" :> <<UnknownMember("image")>>)}
                  [] OTHER -> {})

\* The record was encoded and the wire value decoded.
RoundTripped == pc = "returned" /\ yielded # << >>

\* C20: decoding the encoding of a record of a shape with a field table
\* gives the record back, whichever of its fields are present.
C20_RoundTrip ==
    (RoundTripped /\ buildInput.input \in TypedRecords(op)) =>
        yielded[1] = buildInput.input

\* A record whose currentMessage is the unrecognized alternative comes back
\* with the alternative's name replaced by the word "name".
C20_Witness ==
    /\ RoundTripped
    /\ op = "se_ConversationState"
    /\ DOMAIN buildInput.input = {"chatTriggerType", "currentMessage"}
    /\ Has(buildInput.input["currentMessage"], "$unknown")
    /\ buildInput.input["currentMessage"]["$unknown"][1] = "systemMessage"
    /\ yielded[1]["currentMessage"]["$unknown"][1] = "name"

-----------------------------------------------------------------------------
(* Properties of the unrecognized event *)

\* The positions read so far whose frame has a name outside the decode table.
UnknownPositions ==
    {i \in 1..Len(yielded) : NameOf(Frames[i]) \notin DecodeTable(op)}

\* C21: the $unknown alternative yielded for a frame with an unknown event
\* name carries that frame, so two different unknown frames of one stream
\* yield different $unknown payloads.
C21_UnknownCarriesItsFrame ==
    pc = "returned" =>
        \A i \in UnknownPositions :
            /\ yielded[i]["$unknown"] = Frames[i]
            /\ \A j \in UnknownPositions :
                Frames[i] # Frames[j] =>
                    yielded[i]["$unknown"] # yielded[j]["$unknown"]

\* Two unknown frames with different payloads, both read: each $unknown holds
\* the whole response body, so the two are equal.
C21_Witness ==
    /\ pc = "returned"
    /\ op = "SendMessage"
    /\ Len(Frames) = 2
    /\ NameOf(Frames[1]) = "futureEvent"
    /\ NameOf(Frames[2]) = "futureEvent"
    /\ Frames[1] # Frames[2]
    /\ Len(yielded) = 2
    /\ yielded[1]["$unknown"] = output.body
    /\ yielded[2]["$unknown"] = output.body

-----------------------------------------------------------------------------
(* Properties of the unrecognized alternative *)

\* C22: a Variant whose one populated alternative is the unrecognized one,
\* carrying the tag name n and the raw value v, is encoded as the object with
\* the single key n and the value v.
C22_UnknownEncodedUnderItsTag ==
    (op \in VariantEncoders /\ pc # "idle" /\ Populated = {"$unknown"}) =>
        LET n == buildInput.input["$unknown"][1]
            v == buildInput.input["$unknown"][2]
        IN  /\ pc = "returned"
            /\ DOMAIN outcome.value = {n}
            /\ outcome.value[n] = v

\* The unrecognized alternative systemMessage of a ChatMessage, encoded under
\* the key "name".
C22_Witness ==
    /\ op = "se_ChatMessage"
    /\ pc = "returned"
    /\ Populated = {"$unknown"}
    /\ buildInput.input["$unknown"][1] = "systemMessage"
    /\ DOMAIN outcome.value = {"name"}
    /\ outcome.value["name"] = buildInput.input["$unknown"][2]

-----------------------------------------------------------------------------
(* Properties of the list coders *)

\* The list handed to the coder: empty when the argument is missing.
ListGiven ==
    IF op = "de_InteractionComponentEntryList"
    THEN (IF buildInput.input = None THEN << >> ELSE buildInput.input[1])
    ELSE buildInput.input

\* One entry under the coder of the entries of the list.
EntryCoded(coder, entry) ==
    CASE coder = "se_ChatHistory" -> se_ChatMessage(entry)
      [] coder = "se_ImageBlocks" -> se_ImageBlock(entry)
      [] coder = "se_ToolResultContent" -> se_ToolResultContentBlock(entry)
      [] coder = "se_ToolResults" -> se_ToolResult(entry)
      [] coder = "se_Tools" -> se_Tool(entry)
      [] coder = "se_ToolUses" -> se_ToolUse(entry)
      [] coder = "de_InteractionComponentEntryList" ->
            Return(de_InteractionComponentEntry(entry))

\* The positions of the entries that are not null, in order.
KeptPositions == {i \in 1..Len(ListGiven) : ListGiven[i] # Null}

\* The position in the list of the n-th entry that is not null.
KeptAt(n) ==
    CHOOSE i \in KeptPositions : Cardinality({j \in KeptPositions : j <= i}) = n

\* C23: a list coder whose entries all encode gives the encodings of the
\* entries that are not null, in their order, so a list never longer than
\* its input; de_InteractionComponentEntryList gives the empty list for a
\* missing list.
C23_ListsDropNullKeepOrder ==
    (op \in ListCoders /\ pc # "idle"
     /\ \A i \in KeptPositions : EntryCoded(op, ListGiven[i]).type = "return") =>
        /\ pc = "returned"
        /\ Len(outcome.value) = Cardinality(KeptPositions)
        /\ Len(outcome.value) <= Len(ListGiven)
        /\ \A n \in 1..Len(outcome.value) :
              outcome.value[n] = EntryCoded(op, ListGiven[KeptAt(n)]).value
        /\ (op = "de_InteractionComponentEntryList" /\ buildInput.input = None)
              => outcome.value = << >>

\* A tool use, then null: one encoded entry.
C23_Witness ==
    /\ op = "se_ToolUses"
    /\ pc = "returned"
    /\ Len(buildInput.input) = 2
    /\ buildInput.input[1] = Null
    /\ buildInput.input[2] # Null
    /\ Len(outcome.value) = 1
    /\ outcome.value[1] = se_ToolUse(buildInput.input[2]).value

-----------------------------------------------------------------------------
(* Properties of the web page reader *)

\* The calls made so far that rejected, and the calls of close.
RejectedCalls == {i \in DOMAIN calls : ~calls[i].resolved}
CloseCalls == {i \in DOMAIN calls : calls[i].call = "browser.close"}
Launched == \E i \in DOMAIN calls : calls[i] = [call |-> "chromium.launch", resolved |-> TRUE]

\* C24: invoke completes by returning, never by throwing; if the launch
\* succeeded the browser has been closed exactly once, otherwise never; and
\* a failure of any call from the launch to the extraction is returned as a
\* Text output with success false.
C24_NeverThrowsNeverLeaks ==
    pc = "completed" =>
        /\ outcome.type = "return"
        /\ Cardinality(CloseCalls) = (IF Launched THEN 1 ELSE 0)
        /\ CloseCalls \cap RejectedCalls = {}
        /\ (RejectedCalls # {}) =>
              /\ outcome.value.output.kind = "Text"
              /\ outcome.value.output.success = FALSE

\* The scrape went through, close rejected: invoke throws the error of
\* close and the Json output is lost.
C24_Witness ==
    /\ pc = "completed"
    /\ Launched
    /\ Len(calls) = 10
    /\ RejectedCalls = {10}
    /\ calls[10].call = "browser.close"
    /\ Has(locals, "description")
    /\ outcome.type = "throw"

====
